---- MODULE Spec2Model ----
(***************************************************************************)
(* A model of the gh-proxy request pipeline: the per-IP rate limiter, the  *)
(* credential cache and its middleware, the URL dispatcher and the content *)
(* handlers with their response cache.                                     *)
(*                                                                         *)
(* Time is one clock, `now`, counted in ticks of 1/TicksPerSec second.     *)
(* Strings that are split on "/" by the code are sequences of segments.    *)
(***************************************************************************)
EXTENDS Integers, Sequences, FiniteSets, TLC

(***************************************************************************)
(* Bounds of the model                                                     *)
(***************************************************************************)
TicksPerSec == 4
MaxTicks == 2
MaxCalls == 6
MaxBuckets == 3
MemorySize == 1
MaxHalfHours == 3
MaxRest == 4
MaxName == 2
MaxRequests == 2
MaxConns == 2
MaxChannels == 1
MaxSets == 2
MaxRateCalls == 3
MaxHostLen == 5
MaxAddrs == 2
MaxPathLen == 4
MaxChain == 13
MaxAPISegs == 2
MaxURLSegs == 3

(***************************************************************************)
(* Parameters of the limiter under test: NewRateLimiter(2, 3)              *)
(***************************************************************************)
Rate == 2
Burst == 3

(***************************************************************************)
(* Durations, in ticks                                                     *)
(***************************************************************************)
Minute == 60 * TicksPerSec
HalfHour == 30 * Minute
RawTTL == 60 * Minute
GistTTL == 30 * Minute
AuthTTL == 60 * Minute
ReleaseTTL == 60 * Minute

(***************************************************************************)
(* Sizes, in bytes                                                         *)
(***************************************************************************)
SmallSize == 1024
RawCeiling == 100 * 1024 * 1024
GistCeiling == 10 * 1024 * 1024
APICeiling == 5 * 1024 * 1024

IPs == {"ip1", "ip2"}
Procs == {1, 2}
NoEntry == 0

VARIABLES
    now,        \* time.Now(), in ticks
    rl,         \* RateLimiter.rate, RateLimiter.burst; sets: the values they
                \* have held, oldest first; got: the last GetRate or GetBurst;
                \* sweep: the position of the cleanup goroutine
    limiters,   \* RateLimiter.limiters: ip -> bucket id, NoEntry when absent
    heap,       \* the limiterEntry objects ever stored, by id
    proc,       \* the goroutines inside RateLimiter.Allow; via: how getLimiter
                \* found the entry (Load, LoadOrStore loaded, LoadOrStore stored)
    allowLog,   \* per ip: the limiter.Allow() calls in the order they ran
    cfg,        \* the configuration the server was built with
    mem,        \* Cache memory tier: key -> [data, expires]
    lru,        \* the keys of mem, least recently used first
    disk,       \* Cache disk tier: key -> [data, expires]
    store,      \* auth.Cache.store: credential -> Token
    req,        \* the request being served and its position in the chain
    resp,       \* what has been written for it, and what was done on its behalf
    hist,       \* per raw key: the previous response, and whether its entry
                \* has been left alone since
    ssh,        \* the SSH tunnel: its server, one session channel and the
                \* bridge to the origin
    sec,        \* security.ValidateGitHubURL: the URL given, the answer of
                \* the resolver and the error returned
    client,     \* proxy.ProxyClient: the request being sent and the
                \* redirects followed for it
    authc       \* the callers of auth.Cache: get: the goroutines inside
                \* Cache.Get, last: the method that ran last

limiterVars == <<rl, limiters, heap, proc, allowLog>>

serverVars == <<cfg, mem, lru, disk, store, req, resp, hist, ssh, sec, client,
               authc>>

\* everything but the SSH tunnel
httpVars == <<now, rl, limiters, heap, proc, allowLog, cfg, mem, lru, disk, store,
              req, resp, hist, sec, client, authc>>

Min(a, b) == IF a < b THEN a ELSE b

\* the sequences over S of length lo to hi
Seqs(S, lo, hi) == UNION {[1..n -> S] : n \in lo..hi}

(***************************************************************************)
(* golang.org/x/time/rate as used by limiterEntry.  Tokens are counted in  *)
(* units of 1/TicksPerSec token, so that `limit` tokens per second is      *)
(* `limit` units per tick and the arithmetic stays exact.                  *)
(***************************************************************************)
OneToken == TicksPerSec

\* newLimiterEntry: rate.NewLimiter(r, b) starts full; lastSeen = time.Now()
newLimiterEntry(r, b, t) ==
    [tokens |-> b * OneToken, last |-> t, limit |-> r, burst |-> b, lastSeen |-> t]

\* rate.Limiter.advance, mutated: elapsed time earns nothing
AdvanceNoRefill(e, t) == Min(e.burst * OneToken, e.tokens)

\* rate.Limiter.advance: the tokens the bucket holds at time t
Advance(e, t) ==
    LET elapsed == IF t > e.last THEN t - e.last ELSE 0
    IN  Min(e.burst * OneToken, e.tokens + elapsed * e.limit)

\* rate.Limiter.Allow at time t: TRUE iff one whole token is available
LimiterAllows(e, t) == e.burst >= 1 /\ Advance(e, t) >= OneToken

\* the entry after rate.Limiter.Allow at time t (a denied call takes nothing)
LimiterTake(e, t) ==
    IF LimiterAllows(e, t)
    THEN [e EXCEPT !.tokens = Advance(e, t) - OneToken, !.last = t]
    ELSE e

\* limiterEntry.updateLastSeen
updateLastSeen(e, t) == [e EXCEPT !.lastSeen = t]

(***************************************************************************)
(* RateLimiter.Allow, one step per shared-memory access of getLimiter      *)
(***************************************************************************)
IdleProc == [pc |-> "idle", ip |-> "ip1", entry |-> NoEntry, via |-> "none",
             newEntry |-> newLimiterEntry(0, 0, 0), began |-> 0]

TotalCalls == Len(allowLog["ip1"]) + Len(allowLog["ip2"])

InFlight == Cardinality({p \in Procs : proc[p].pc # "idle"})

\* a goroutine enters Allow(ip)
AllowBegin(p, ip) ==
    /\ proc[p].pc = "idle"
    /\ TotalCalls + InFlight < MaxCalls
    /\ proc' = [proc EXCEPT ![p] = [IdleProc EXCEPT !.pc = "load", !.ip = ip,
                                                    !.began = Len(rl.sets)]]
    /\ UNCHANGED <<now, rl, limiters, heap, allowLog, serverVars>>

\* getLimiter: rl.limiters.Load(ip)
GetLimiterLoad(p) ==
    /\ proc[p].pc = "load"
    /\ proc' = [proc EXCEPT ![p] =
                  IF limiters[proc[p].ip] # NoEntry
                  THEN [@ EXCEPT !.pc = "touch", !.entry = limiters[proc[p].ip],
                                  !.via = "load"]
                  ELSE [@ EXCEPT !.pc = "new"]]
    /\ UNCHANGED <<now, rl, limiters, heap, allowLog, serverVars>>

\* getLimiter: newEntry := newLimiterEntry(rl.rate, rl.burst)
GetLimiterNew(p) ==
    /\ proc[p].pc = "new"
    /\ proc' = [proc EXCEPT ![p] =
                  [@ EXCEPT !.pc = "store",
                            !.newEntry = newLimiterEntry(rl.rate, rl.burst, now)]]
    /\ UNCHANGED <<now, rl, limiters, heap, allowLog, serverVars>>

\* sync.Map.LoadOrStore, mutated: stores unconditionally
StoreAlways(p) ==
    /\ proc[p].pc = "store"
    /\ Len(heap) < MaxBuckets
    /\ heap' = Append(heap, proc[p].newEntry)
    /\ limiters' = [limiters EXCEPT ![proc[p].ip] = Len(heap) + 1]
    /\ proc' = [proc EXCEPT ![p] = [@ EXCEPT !.pc = "allow", !.entry = Len(heap) + 1,
                                              !.via = "stored"]]
    /\ UNCHANGED <<now, rl, allowLog, serverVars>>

\* getLimiter: rl.limiters.LoadOrStore(ip, newEntry)
GetLimiterLoadOrStore(p) ==
    /\ proc[p].pc = "store"
    /\ IF limiters[proc[p].ip] # NoEntry
       THEN \* another goroutine created it first, use that one
            /\ proc' = [proc EXCEPT ![p] =
                          [@ EXCEPT !.pc = "touch", !.entry = limiters[proc[p].ip],
                                    !.via = "raced"]]
            /\ UNCHANGED <<authc, client, sec, ssh, limiters, heap>>
       ELSE /\ Len(heap) < MaxBuckets
            /\ heap' = Append(heap, proc[p].newEntry)
            /\ limiters' = [limiters EXCEPT ![proc[p].ip] = Len(heap) + 1]
            /\ proc' = [proc EXCEPT ![p] =
                          [@ EXCEPT !.pc = "allow", !.entry = Len(heap) + 1,
                                    !.via = "stored"]]
    /\ UNCHANGED <<now, rl, allowLog, serverVars>>

\* getLimiter: entry.updateLastSeen() on an entry found in the map
GetLimiterTouch(p) ==
    /\ proc[p].pc = "touch"
    /\ heap' = [heap EXCEPT ![proc[p].entry] = updateLastSeen(@, now)]
    /\ proc' = [proc EXCEPT ![p] = [@ EXCEPT !.pc = "allow"]]
    /\ UNCHANGED <<now, rl, limiters, allowLog, serverVars>>

\* Allow: return limiter.limiter.Allow()
AllowTake(p) ==
    /\ proc[p].pc = "allow"
    /\ LET e == heap[proc[p].entry]
       IN  /\ heap' = [heap EXCEPT ![proc[p].entry] = LimiterTake(e, now)]
           /\ allowLog' = [allowLog EXCEPT ![proc[p].ip] =
                  Append(@, [t |-> now, ok |-> LimiterAllows(e, now),
                             bucket |-> proc[p].entry])]
    /\ proc' = [proc EXCEPT ![p] = IdleProc]
    /\ UNCHANGED <<now, rl, limiters, serverVars>>

\* the clock advances by one tick
Tick ==
    /\ now < MaxTicks
    /\ now' = now + 1
    /\ UNCHANGED <<limiterVars, serverVars>>

(***************************************************************************)
(* RateLimiter.SetRate, SetBurst, GetRate, GetBurst, and getLimiter's      *)
(* reads of rl.rate and rl.burst, which take no lock                       *)
(***************************************************************************)
Rates == {1, Rate}
Bursts == {2, Burst}

NoGot == [what |-> "none", value |-> 0]

\* SetRate, mutated: the new rate is also given to the buckets in the map
SetRateEverywhere(r) ==
    /\ Len(rl.sets) <= MaxSets
    /\ rl' = [rl EXCEPT !.rate = r, !.sets = Append(@, [rate |-> r, burst |-> rl.burst])]
    /\ heap' = [i \in DOMAIN heap |-> [heap[i] EXCEPT !.limit = r]]
    /\ UNCHANGED <<now, limiters, proc, allowLog, serverVars>>

\* SetRate: rl.rate = r under rl.mu
SetRate(r) ==
    /\ Len(rl.sets) <= MaxSets
    /\ rl' = [rl EXCEPT !.rate = r, !.sets = Append(@, [rate |-> r, burst |-> rl.burst])]
    /\ UNCHANGED <<now, limiters, heap, proc, allowLog, serverVars>>

\* SetBurst: rl.burst = b under rl.mu
SetBurst(b) ==
    /\ Len(rl.sets) <= MaxSets
    /\ rl' = [rl EXCEPT !.burst = b, !.sets = Append(@, [rate |-> rl.rate, burst |-> b])]
    /\ UNCHANGED <<now, limiters, heap, proc, allowLog, serverVars>>

\* GetRate: return rl.rate under rl.mu
GetRate ==
    /\ rl' = [rl EXCEPT !.got = [what |-> "rate", value |-> rl.rate]]
    /\ UNCHANGED <<now, limiters, heap, proc, allowLog, serverVars>>

\* GetBurst: return rl.burst under rl.mu
GetBurst ==
    /\ rl' = [rl EXCEPT !.got = [what |-> "burst", value |-> rl.burst]]
    /\ UNCHANGED <<now, limiters, heap, proc, allowLog, serverVars>>

\* getLimiter: the first argument of newLimiterEntry, rl.rate, is read
GetLimiterReadRate(p) ==
    /\ proc[p].pc = "new"
    /\ proc' = [proc EXCEPT ![p] =
                  [@ EXCEPT !.pc = "new2", !.newEntry.limit = rl.rate]]
    /\ UNCHANGED <<now, rl, limiters, heap, allowLog, serverVars>>

\* getLimiter: the second argument, rl.burst, is read and the entry is made
GetLimiterReadBurst(p) ==
    /\ proc[p].pc = "new2"
    /\ proc' = [proc EXCEPT ![p] =
                  [@ EXCEPT !.pc = "store",
                            !.newEntry = newLimiterEntry(proc[p].newEntry.limit,
                                                         rl.burst, now)]]
    /\ UNCHANGED <<now, rl, limiters, heap, allowLog, serverVars>>

(***************************************************************************)
(* RateLimiter.cleanup, one step per access to the map and its entries     *)
(***************************************************************************)
idleTimeout == HalfHour

NoSweep == [pc |-> "idle", at |-> 0, todo |-> {}, ip |-> "ip1", lastSeen |-> 0]

\* cleanup: now := time.Now(), and Range starts over the keys of the map
CleanupBegin ==
    /\ rl.sweep.pc = "idle"
    /\ rl' = [rl EXCEPT !.sweep = [NoSweep EXCEPT !.pc = "range", !.at = now,
                                                  !.todo = IPs]]
    /\ UNCHANGED <<now, limiters, heap, proc, allowLog, serverVars>>

\* the test of cleanup, mutated: an entry idle for exactly idleTimeout goes too
IdleAtLeast(at, lastSeen) == at - lastSeen >= idleTimeout

\* cleanup: now.Sub(lastSeen) > idleTimeout
Idle(at, lastSeen) == at - lastSeen > idleTimeout

\* Range calls the function on a key: lastSeen := entry.getLastSeen(), and
\* the test of it; a key that is not in the map is not visited
CleanupVisit(ip) ==
    /\ rl.sweep.pc = "range"
    /\ ip \in rl.sweep.todo
    /\ rl' = [rl EXCEPT !.sweep =
                IF limiters[ip] # NoEntry /\ Idle(rl.sweep.at, heap[limiters[ip]].lastSeen)
                THEN [@ EXCEPT !.pc = "delete", !.ip = ip,
                               !.lastSeen = heap[limiters[ip]].lastSeen]
                ELSE [@ EXCEPT !.todo = @ \ {ip}]]
    /\ UNCHANGED <<now, limiters, heap, proc, allowLog, serverVars>>

\* cleanup: rl.limiters.Delete(ip)
CleanupDelete ==
    /\ rl.sweep.pc = "delete"
    /\ limiters' = [limiters EXCEPT ![rl.sweep.ip] = NoEntry]
    /\ rl' = [rl EXCEPT !.sweep = [@ EXCEPT !.pc = "range", !.todo = @ \ {rl.sweep.ip}]]
    /\ UNCHANGED <<now, heap, proc, allowLog, serverVars>>

\* Range has visited every key and cleanup returns
CleanupEnd ==
    /\ rl.sweep.pc = "range"
    /\ rl.sweep.todo = {}
    /\ rl' = [rl EXCEPT !.sweep = NoSweep]
    /\ UNCHANGED <<now, limiters, heap, proc, allowLog, serverVars>>

\* time passes: a tick, or the idle timeout; the clock is kept within
\* MaxTicks ticks of a multiple of the idle timeout.  A call of Allow and a
\* run of cleanup take far less than the idle timeout, so that much time
\* passes only between them.
TimePasses(d) ==
    /\ now + d <= idleTimeout + MaxTicks
    /\ (now + d) % idleTimeout <= MaxTicks
    /\ d > MaxTicks => InFlight = 0 /\ rl.sweep.pc = "idle"
    /\ now' = now + d
    /\ UNCHANGED <<limiterVars, serverVars>>

(***************************************************************************)
(* Strings.  A string that the code splits on "/" is the sequence of its    *)
(* segments, i.e. strings.Split(s, "/"): "" is <<"">>, "/a/b" is            *)
(* <<"", "a", "b">>.  strings.Join(parts, "/") is then the identity.        *)
(***************************************************************************)
Empty == <<"">>

IsEmpty(s) == s = Empty

\* strings.TrimPrefix(s, "/")
TrimLeadingSlash(s) == IF Len(s) >= 2 /\ s[1] = "" THEN Tail(s) ELSE s

\* "/" + s
WithLeadingSlash(s) == <<"">> \o s

\* parts[i:] of a Go slice, i counted from 0
From(parts, i) == SubSeq(parts, i + 1, Len(parts))

\* a + b where one side of the seam is empty (a ends with "/" or is "", or b
\* starts with "/" or is ""): every concatenation the handlers perform on
\* the inputs enumerated here is of this form
Concat(a, b) ==
    IF a[Len(a)] = "" THEN SubSeq(a, 1, Len(a) - 1) \o b
    ELSE SubSeq(a, 1, Len(a) - 1) \o <<a[Len(a)]>> \o Tail(b)

\* names that end in ".git", with the name strings.TrimSuffix leaves
GitSuffixed == {<<"Hello-World.git", "Hello-World">>}

\* strings.HasSuffix(name, ".git")
HasGitSuffix(name) == \E pr \in GitSuffixed : pr[1] = name

\* strings.TrimSuffix(name, ".git")
TrimGitSuffix(name) ==
    IF HasGitSuffix(name) THEN (CHOOSE pr \in GitSuffixed : pr[1] = name)[2] ELSE name

\* strings.Contains(path, "/" + a + "/" + b) for whole segments a, b
ContainsPair(path, a, b) ==
    \E i \in 2..(Len(path) - 1) : path[i] = a /\ path[i + 1] = b

\* strings.Contains(path, "/" + a) for a whole segment a
ContainsSeg(path, a) == \E i \in 2..Len(path) : path[i] = a

(***************************************************************************)
(* URL dispatch                                                            *)
(***************************************************************************)
KnownHosts == {"github.com", "raw.githubusercontent.com", "api.github.com",
               "gist.github.com"}

Schemes == {"http:", "https:"}

\* server.isGitHubURL: the path, less its leading slash, starts with a known
\* origin host followed by "/", with or without http:// or https://
isGitHubURL(path) ==
    LET q == TrimLeadingSlash(path)
    IN  \/ Len(q) >= 4 /\ q[1] \in Schemes /\ q[2] = "" /\ q[3] \in KnownHosts
        \/ Len(q) >= 2 /\ q[1] \in KnownHosts

\* net/url.Parse on scheme://host/path and on a scheme-less path
urlParse(u) ==
    IF Len(u) >= 3 /\ u[1] \in Schemes /\ u[2] = ""
    THEN [Scheme |-> u[1], Host |-> u[3],
          Path |-> IF Len(u) >= 4 THEN WithLeadingSlash(From(u, 3)) ELSE Empty]
    ELSE [Scheme |-> "", Host |-> "", Path |-> u]

NoInfo == [Type |-> "", Owner |-> "", Repo |-> "", Tag |-> Empty, Ref |-> Empty,
           Filename |-> Empty, Filepath |-> Empty, GistID |-> "", User |-> "",
           APIPath |-> Empty, err |-> FALSE]

ParseError == [NoInfo EXCEPT !.err = TRUE]

\* the raw arm of parseGitHubComURL, mutated: refs/<x>/<y> is the ref
RefWithBranch(info, parts) ==
    IF Len(parts) >= 4
    THEN IF parts[4] = "refs" /\ Len(parts) >= 6
         THEN [info EXCEPT !.Ref = SubSeq(parts, 4, 6),
                           !.Filepath = IF Len(parts) > 6
                                        THEN WithLeadingSlash(From(parts, 6))
                                        ELSE Empty]
         ELSE [info EXCEPT !.Ref = <<parts[4]>>,
                           !.Filepath = IF Len(parts) > 4
                                        THEN WithLeadingSlash(From(parts, 4))
                                        ELSE Empty]
    ELSE info

\* the raw and the blob/tree arm of parseGitHubComURL
RefAndFilepath(info, parts) ==
    IF Len(parts) >= 4
    THEN IF parts[4] = "refs" /\ Len(parts) >= 5
         THEN [info EXCEPT !.Ref = SubSeq(parts, 4, 5),
                           !.Filepath = IF Len(parts) > 5
                                        THEN WithLeadingSlash(From(parts, 5))
                                        ELSE Empty]
         ELSE [info EXCEPT !.Ref = <<parts[4]>>,
                           !.Filepath = IF Len(parts) > 4
                                        THEN WithLeadingSlash(From(parts, 4))
                                        ELSE Empty]
    ELSE info

\* URLHandler.parseGitHubComURL; path has no leading slash
parseGitHubComURL(path) ==
    LET parts == path
        info  == [NoInfo EXCEPT !.Owner = parts[1], !.Repo = TrimGitSuffix(parts[2])]
    IN  IF Len(parts) < 2 THEN ParseError
        ELSE IF Len(parts) < 3 THEN info
        ELSE CASE parts[3] = "releases" ->
                    IF Len(parts) >= 5 /\ parts[4] = "download"
                    THEN [info EXCEPT !.Type = "releases", !.Tag = <<parts[5]>>,
                                      !.Filename = IF Len(parts) > 5
                                                   THEN From(parts, 5) ELSE Empty]
                    ELSE info
               [] parts[3] = "raw" ->
                    RefAndFilepath([info EXCEPT !.Type = "raw"], parts)
               [] parts[3] = "archive" ->
                    [info EXCEPT !.Type = "archive",
                                 !.Ref = IF Len(parts) >= 4 THEN From(parts, 3) ELSE Empty]
               [] parts[3] \in {"blob", "tree"} ->
                    RefAndFilepath([info EXCEPT !.Type = "raw"], parts)
               [] OTHER ->
                    IF \/ HasGitSuffix(parts[2])
                       \/ ContainsPair(path, "info", "refs")
                       \/ ContainsSeg(path, "git-upload-pack")
                       \/ ContainsSeg(path, "git-receive-pack")
                    THEN [info EXCEPT !.Type = "git"]
                    ELSE info

\* URLHandler.parseRawGitHubUserContentURL
parseRawGitHubUserContentURL(path) ==
    LET parts == path
    IN  IF Len(parts) < 3 THEN ParseError
        ELSE [NoInfo EXCEPT !.Type = "raw", !.Owner = parts[1], !.Repo = parts[2],
                            !.Ref = <<parts[3]>>,
                            !.Filepath = IF Len(parts) > 3
                                         THEN WithLeadingSlash(From(parts, 3))
                                         ELSE Empty]

\* URLHandler.parseAPIGitHubURL
parseAPIGitHubURL(path) ==
    [NoInfo EXCEPT !.Type = "api", !.APIPath = WithLeadingSlash(path)]

\* URLHandler.parseGistGitHubURL
parseGistGitHubURL(path) ==
    LET parts == path
        raws  == {i \in 1..(Len(parts) - 1) : parts[i] = "raw"}
        first == CHOOSE i \in raws : \A j \in raws : i <= j
    IN  IF Len(parts) < 2 THEN ParseError
        ELSE [NoInfo EXCEPT !.Type = "gist", !.User = parts[1], !.GistID = parts[2],
                            !.Filename = IF raws # {} THEN <<parts[first + 1]>>
                                         ELSE Empty]

\* strings.Contains(host, h) for the hosts that occur
HostContains(host, h) ==
    \/ host = h
    \/ h = "github.com" /\ host \in {"api.github.com", "gist.github.com"}

\* URLHandler.parseGitHubURL; fullURL has no leading slash
parseGitHubURL(fullURL) ==
    LET first  == urlParse(fullURL)
        parsed == IF first.Scheme = "" /\ Len(fullURL) >= 2 /\ fullURL[1] \in KnownHosts
                  THEN urlParse(<<"https:", "">> \o fullURL)
                  ELSE first
        host   == parsed.Host
        path   == TrimLeadingSlash(parsed.Path)
    IN  CASE HostContains(host, "raw.githubusercontent.com") ->
                 parseRawGitHubUserContentURL(path)
          [] HostContains(host, "api.github.com") -> parseAPIGitHubURL(path)
          [] HostContains(host, "gist.github.com") -> parseGistGitHubURL(path)
          [] HostContains(host, "github.com") -> parseGitHubComURL(path)
          [] OTHER -> ParseError

(***************************************************************************)
(* The response cache (package internal/cache).  The key is the tuple      *)
(* GenerateKey digests; the memory tier is bounded and evicts the least     *)
(* recently used entry; the disk tier is an index of metadata records.      *)
(***************************************************************************)
\* cache.GenerateKey(kind, a, b, c, d, e)
GenerateKey(kind, a, b, c, d, e) == <<kind, a, b, c, d, e>>

\* Cache.Get: a memory entry that has not expired
CacheGet(k) == k \in DOMAIN mem /\ now <= mem[k].expires

\* Cache.GetMetadata: a disk record that has not expired
GetMetadata(k) == k \in DOMAIN disk /\ now <= disk[k].expires

\* the recency order after k was used
Touched(order, k) == SelectSeq(order, LAMBDA x : x # k) \o <<k>>

\* the memory map with key k removed
Without(m, k) == [x \in DOMAIN m \ {k} |-> m[x]]

\* Cache.Set(k, entry, ttl): at the bound, the least recently used entry
\* makes room
CacheSetMem(k, data, headers, ttl) ==
    LET full == k \notin DOMAIN mem /\ Cardinality(DOMAIN mem) >= MemorySize
        base == IF full THEN Without(mem, Head(lru)) ELSE mem
    IN  [x \in DOMAIN base \cup {k} |->
            IF x = k THEN [data |-> data, headers |-> headers, expires |-> now + ttl]
            ELSE base[x]]

CacheSetLru(k) ==
    LET full == k \notin DOMAIN mem /\ Cardinality(DOMAIN mem) >= MemorySize
    IN  Touched(IF full THEN Tail(lru) ELSE lru, k)

\* the keys a Set of k pushes out of the memory tier
Evicted(k) ==
    IF k \notin DOMAIN mem /\ Cardinality(DOMAIN mem) >= MemorySize
    THEN {Head(lru)} ELSE {}

(***************************************************************************)
(* Upstream answers and handler outcomes                                   *)
(***************************************************************************)
TransportError ==
    [err |-> TRUE, status |-> 0, body |-> "", size |-> 0, declared |-> FALSE,
     xcache |-> "none", headers |-> <<>>]

\* what client.Do returns: an error, or a status with headers and a body;
\* declared: the response carries a Content-Length (resp.ContentLength is the
\* size), otherwise resp.ContentLength is -1
Answer(status, body, size, declared, xcache) ==
    [err |-> FALSE, status |-> status, body |-> body, size |-> size,
     declared |-> declared, xcache |-> xcache, headers |-> <<>>]

\* the answer u carrying the response headers hs as well
WithHeaders(u, hs) == [u EXCEPT !.headers = hs]

\* SecurityHeaders: the six headers it sets on every response
SecurityHeaderValues ==
    [h \in {"X-Content-Type-Options", "X-Frame-Options", "X-XSS-Protection",
            "Content-Security-Policy", "Referrer-Policy", "Permissions-Policy"} |->
        CASE h = "X-Content-Type-Options" -> "nosniff"
          [] h = "X-Frame-Options" -> "DENY"
          [] h = "X-XSS-Protection" -> "1; mode=block"
          [] h = "Content-Security-Policy" -> "default-src 'self'"
          [] h = "Referrer-Policy" -> "strict-origin-when-cross-origin"
          [] h = "Permissions-Policy" -> "geolocation=(), microphone=(), camera=()"]

\* a Content-Security-Policy an origin sends with its files
SandboxPolicy ==
    [h \in {"Content-Security-Policy"} |->
        "default-src 'none'; style-src 'unsafe-inline'; sandbox"]

\* c.Header(key, value) for every key of hs: a value already set is replaced
SetHeaders(have, hs) ==
    [h \in DOMAIN have \cup DOMAIN hs |-> IF h \in DOMAIN hs THEN hs[h] ELSE have[h]]

Upstream ==
    {TransportError,
     Answer(200, "b1", SmallSize, TRUE, "none"),
     Answer(200, "b2", SmallSize, TRUE, "none"),
     Answer(200, "b1", SmallSize, FALSE, "none"),
     Answer(200, "b1", 0, TRUE, "none"),
     Answer(200, "b1", RawCeiling, TRUE, "none"),
     Answer(200, "b1", SmallSize, TRUE, "HIT"),
     WithHeaders(Answer(200, "b1", SmallSize, TRUE, "none"), SandboxPolicy),
     Answer(206, "b1", SmallSize, TRUE, "none"),
     Answer(404, "b2", SmallSize, TRUE, "none")}

ContentLength(u) == IF u.declared THEN u.size ELSE -1

NoKey == <<>>
NoAnswer == 0 - 1
NoUp == [status |-> 0, body |-> ""]

\* the outcome of a handler: what it wrote to the client, which upstream
\* requests it made, and what it did to the cache
NoOutcome ==
    [status |-> 0, json |-> FALSE, xcache |-> "none", body |-> "",
     complete |-> TRUE, fetched |-> <<>>, validated |-> {}, up |-> NoUp,
     handler |-> "none", key |-> NoKey, set |-> FALSE, tier |-> "mem", ttl |-> 0,
     hit |-> FALSE, ran |-> <<>>, limited |-> FALSE, validations |-> 0,
     verdict |-> "none", expired |-> FALSE, answer |-> NoAnswer,
     headers |-> <<>>, stored |-> <<>>, panic |-> "none", wrote |-> FALSE]

\* c.JSON(code, gin.H{...})
JSONReply(o, code) == [o EXCEPT !.status = code, !.json = TRUE, !.body = "json"]

\* serveFromCache: the stored bytes with X-Cache: HIT-MEMORY
serveFromCache(o, k) ==
    [o EXCEPT !.status = 200, !.xcache = "HIT-MEMORY", !.body = mem[k].data,
              !.key = k, !.hit = TRUE,
              !.headers = SetHeaders(@, mem[k].headers)]

\* serveFromDisk: the stored file with X-Cache: HIT-DISK
serveFromDisk(o, k) ==
    [o EXCEPT !.status = 200, !.xcache = "HIT-DISK", !.body = disk[k].data, !.key = k,
              !.headers = SetHeaders(@, disk[k].headers)]

\* c.Status(resp.StatusCode); io.Copy(c.Writer, resp.Body)
Forward(o, u, copyErr) ==
    [o EXCEPT !.status = u.status, !.body = u.body, !.complete = ~copyErr]

\* the tee of fetchAndStream, mutated: installs although io.Copy failed
TeeInstallsAnyway(copyErr, written) == written > 0

\* the tee of fetchAndStream and forwardRequest: the buffer is installed only
\* if io.Copy returned no error and wrote something
TeeInstalls(copyErr, written) == ~copyErr /\ written > 0

\* written, the byte count io.Copy returns
Written(u, copyErr) == IF copyErr THEN u.size \div 2 ELSE u.size

\* shouldCache of fetchAndStream, mutated: nothing is ever buffered
shouldCacheNever(u, ceiling) == FALSE

\* shouldCache := resp.ContentLength > 0 && resp.ContentLength < ceiling
shouldCache(u, ceiling) == ContentLength(u) > 0 /\ ContentLength(u) < ceiling

\* RawHandler.fetchAndStream and GistHandler.fetchAndStream, which differ in
\* the size ceiling and the ttl only
fetchAndStream(o, url, k, u, copyErr, ceiling, ttl) ==
    LET sent == [o EXCEPT !.fetched = Append(@, url),
                          !.up = [status |-> u.status, body |-> u.body]]
    IN  IF u.err THEN JSONReply([sent EXCEPT !.up = NoUp], 502)
        ELSE IF u.status # 200 THEN Forward(sent, u, copyErr)
        ELSE [Forward(sent, u, copyErr) EXCEPT
                 !.headers = SetHeaders(@, u.headers), !.stored = u.headers,
                 !.xcache = "MISS", !.key = k, !.ttl = ttl,
                 !.set = /\ shouldCache(u, ceiling)
                         /\ TeeInstalls(copyErr, Written(u, copyErr))]

\* the upstream URL with the ref left out
RawURLNoRef(owner, repo, ref, filepath) ==
    [scheme |-> "https", host |-> "raw.githubusercontent.com",
     path |-> <<"", owner, repo>> \o Tail(filepath), query |-> ""]

\* fmt.Sprintf("https://raw.githubusercontent.com/%s/%s/%s%s", ...)
RawURL(owner, repo, ref, filepath) ==
    [scheme |-> "https", host |-> "raw.githubusercontent.com",
     path |-> <<"", owner, repo>> \o Concat(ref, filepath), query |-> ""]

\* RawHandler.Handle
RawHandle(o0, owner, repo, ref, filepath, u, copyErr) ==
    LET o == [o0 EXCEPT !.handler = "raw"]
        k == GenerateKey("raw", <<owner>>, <<repo>>, ref, filepath, Empty)
    IN  IF owner = "" \/ repo = "" \/ IsEmpty(ref) \/ IsEmpty(filepath)
        THEN JSONReply(o, 400)
        ELSE IF CacheGet(k) THEN serveFromCache(o, k)
        ELSE IF GetMetadata(k) THEN serveFromDisk(o, k)
        ELSE fetchAndStream(o, RawURL(owner, repo, ref, filepath), k, u, copyErr,
                            RawCeiling, RawTTL)

\* the upstream URL of a gist, mutated: the host is the first parameter
GistURLAnyHost(user, gistID, file) ==
    [scheme |-> "https", host |-> user,
     path |-> <<"", gistID, "raw">> \o file, query |-> ""]

\* fmt.Sprintf("https://gist.githubusercontent.com/%s/%s/raw/%s", ...)
GistURL(user, gistID, file) ==
    [scheme |-> "https", host |-> "gist.githubusercontent.com",
     path |-> <<"", user, gistID, "raw">> \o file, query |-> ""]

\* GistHandler.Handle
GistHandle(o0, user, gistID, file, u, copyErr) ==
    LET o == [o0 EXCEPT !.handler = "gist"]
        k == GenerateKey("gist", <<user>>, <<gistID>>, file, Empty, Empty)
    IN  IF user = "" \/ gistID = "" \/ IsEmpty(file)
        THEN JSONReply(o, 400)
        ELSE IF CacheGet(k) THEN serveFromCache(o, k)
        ELSE IF GetMetadata(k) THEN serveFromDisk(o, k)
        ELSE fetchAndStream(o, GistURL(user, gistID, file), k, u, copyErr,
                            GistCeiling, GistTTL)

\* ReleasesHandler.Handle: disk tier only; the temporary file is renamed into
\* place when the copy ended cleanly
ReleasesHandle(o0, owner, repo, tag, filename, u, copyErr) ==
    LET o == [o0 EXCEPT !.handler = "releases"]
        k == GenerateKey("releases", <<owner>>, <<repo>>, tag, filename, Empty)
        url == [scheme |-> "https", host |-> "github.com",
                path |-> <<"", owner, repo, "releases", "download">> \o tag \o filename,
                query |-> ""]
        sent == [o EXCEPT !.fetched = Append(@, url),
                          !.up = [status |-> u.status, body |-> u.body]]
    IN  IF owner = "" \/ repo = "" \/ IsEmpty(tag) \/ IsEmpty(filename)
        THEN JSONReply(o, 400)
        ELSE IF GetMetadata(k) THEN serveFromDisk(o, k)
        ELSE IF u.err THEN JSONReply([sent EXCEPT !.up = NoUp], 502)
        ELSE IF u.status # 200 THEN Forward(sent, u, copyErr)
        ELSE [Forward(sent, u, copyErr) EXCEPT
                 !.xcache = "MISS", !.key = k, !.ttl = ReleaseTTL, !.tier = "disk",
                 !.set = ~copyErr]

\* archive names with the extension ArchiveHandler.Handle recognises
ArchiveSuffixed == {"main.zip", "main.tar.gz", "v1.0.0.tar.gz"}

\* ArchiveHandler.fetchAndStream, mutated: a 200 is installed in memory
archiveFetchAndStreamCached(o, url, k, u, copyErr) ==
    LET sent == [o EXCEPT !.fetched = Append(@, url),
                          !.up = [status |-> u.status, body |-> u.body]]
    IN  IF u.err THEN JSONReply([sent EXCEPT !.up = NoUp], 502)
        ELSE IF u.status # 200 THEN Forward(sent, u, copyErr)
        ELSE [Forward(sent, u, copyErr) EXCEPT
                 !.headers = SetHeaders(@, u.headers), !.xcache = "MISS", !.key = k,
                 !.set = TRUE, !.ttl = RawTTL, !.stored = u.headers]

\* ArchiveHandler.fetchAndStream: streams, never installs
archiveFetchAndStream(o, url, k, u, copyErr) ==
    LET sent == [o EXCEPT !.fetched = Append(@, url),
                          !.up = [status |-> u.status, body |-> u.body]]
    IN  IF u.err THEN JSONReply([sent EXCEPT !.up = NoUp], 502)
        ELSE IF u.status # 200 THEN Forward(sent, u, copyErr)
        ELSE [Forward(sent, u, copyErr) EXCEPT
                 !.headers = SetHeaders(@, u.headers), !.xcache = "MISS", !.key = k]

\* ArchiveHandler.Handle; ref + "." + format is refWithExt again
ArchiveHandle(o0, owner, repo, refWithExt, u, copyErr) ==
    LET o == [o0 EXCEPT !.handler = "archive"]
        k == GenerateKey("archive", <<owner>>, <<repo>>, refWithExt, Empty, Empty)
        url == [scheme |-> "https", host |-> "github.com",
                path |-> <<"", owner, repo, "archive">> \o refWithExt, query |-> ""]
    IN  IF owner = "" \/ repo = "" \/ IsEmpty(refWithExt) THEN JSONReply(o, 400)
        ELSE IF refWithExt[Len(refWithExt)] \notin ArchiveSuffixed THEN JSONReply(o, 400)
        ELSE IF GetMetadata(k) THEN serveFromDisk(o, k)
        ELSE archiveFetchAndStream(o, url, k, u, copyErr)

\* APIHandler.determineTTL: the first family the request path contains
determineTTL(path) ==
    IF ContainsSeg(path, "releases") THEN 60 * Minute
    ELSE IF ContainsSeg(path, "repos") THEN 30 * Minute
    ELSE IF ContainsSeg(path, "users") THEN 30 * Minute
    ELSE IF ContainsSeg(path, "issues") \/ ContainsSeg(path, "pulls") THEN 5 * Minute
    ELSE IF ContainsSeg(path, "commits") THEN 24 * 60 * Minute
    ELSE 15 * Minute

\* APIHandler.forwardRequest, mutated: installs whatever the status
apiInstallsAnyStatus(isGet, status) == isGet

\* APIHandler.forwardRequest: only a 200 to a GET goes through the tee
apiCaches(isGet, status) == isGet /\ status = 200

\* APIHandler.forwardRequest
apiForwardRequest(o, url, isGet, k, u, copyErr, reqPath) ==
    LET sent == [o EXCEPT !.fetched = Append(@, url),
                          !.up = [status |-> u.status, body |-> u.body]]
        copied == [Forward(sent, u, copyErr) EXCEPT
                      !.headers = SetHeaders(@, u.headers), !.stored = u.headers,
                      !.xcache = u.xcache]
    IN  IF u.err THEN JSONReply([sent EXCEPT !.up = NoUp], 502)
        ELSE IF apiCaches(isGet, u.status)
        THEN [copied EXCEPT
                 !.xcache = "MISS", !.key = k, !.ttl = determineTTL(reqPath),
                 !.set = /\ TeeInstalls(copyErr, Written(u, copyErr))
                         /\ Written(u, copyErr) < APICeiling]
        ELSE copied

\* APIHandler.Handle; apiPath is c.Param("path"), query c.Request.URL.RawQuery
APIHandle(o0, method, apiPath, query, reqPath, u, copyErr) ==
    LET o == [o0 EXCEPT !.handler = "api"]
        path == TrimLeadingSlash(IF IsEmpty(apiPath) THEN <<"", "">> ELSE apiPath)
        url == [scheme |-> "https", host |-> "api.github.com", path |-> WithLeadingSlash(path),
                query |-> query]
        isGet == method = "GET"
        k == GenerateKey("api", path, <<query>>, Empty, Empty, Empty)
    IN  IF isGet /\ CacheGet(k) THEN serveFromCache(o, k)
        ELSE apiForwardRequest(o, url, isGet, k, u, copyErr, reqPath)

\* GitHandler.forwardRequest: headers, status and body as upstream sent them
gitForwardRequest(o, url, u, copyErr) ==
    LET sent == [o EXCEPT !.fetched = Append(@, url),
                          !.up = [status |-> u.status, body |-> u.body]]
    IN  IF u.err THEN JSONReply([sent EXCEPT !.up = NoUp], 502)
        ELSE [Forward(sent, u, copyErr) EXCEPT
                 !.headers = SetHeaders(@, u.headers), !.xcache = u.xcache]

\* GitHandler.HandleInfoRefs
HandleInfoRefs(o0, owner, repoParam, service, u, copyErr) ==
    LET o == [o0 EXCEPT !.handler = "git"]
        repo == TrimGitSuffix(repoParam)
        url == [scheme |-> "https", host |-> "github.com", path |-> <<"", owner, repo, "info", "refs">>,
                query |-> service]
    IN  IF owner = "" \/ repo = "" THEN JSONReply(o, 400)
        ELSE IF service = "" THEN JSONReply(o, 400)
        ELSE IF service \notin {"git-upload-pack", "git-receive-pack"}
        THEN JSONReply(o, 400)
        ELSE gitForwardRequest(o, url, u, copyErr)

\* GitHandler.HandleUploadPack and GitHandler.HandleReceivePack
HandlePack(o0, owner, repoParam, svc, u, copyErr) ==
    LET o == [o0 EXCEPT !.handler = "git"]
        repo == TrimGitSuffix(repoParam)
        url == [scheme |-> "https", host |-> "github.com", path |-> <<"", owner, repo, svc>>,
                query |-> ""]
    IN  IF owner = "" \/ repo = "" THEN JSONReply(o, 400)
        ELSE gitForwardRequest(o, url, u, copyErr)

\* URLHandler.handleGit: the operation is read off the request path; a path
\* that names none of the three writes nothing
handleGit(o, info, reqPath, service, u, copyErr) ==
    IF ContainsPair(reqPath, "info", "refs")
    THEN HandleInfoRefs(o, info.Owner, info.Repo, service, u, copyErr)
    ELSE IF ContainsSeg(reqPath, "git-upload-pack")
    THEN HandlePack(o, info.Owner, info.Repo, "git-upload-pack", u, copyErr)
    ELSE IF ContainsSeg(reqPath, "git-receive-pack")
    THEN HandlePack(o, info.Owner, info.Repo, "git-receive-pack", u, copyErr)
    ELSE o

\* URLHandler.Handle; reqPath is c.Request.URL.Path.  c.GetString("base_path")
\* is never set, so nothing but the leading slash is trimmed.
URLHandle(o, method, reqPath, query, u, copyErr) ==
    LET info == parseGitHubURL(TrimLeadingSlash(reqPath))
    IN  IF info.err THEN JSONReply(o, 400)
        ELSE CASE info.Type = "raw" ->
                    RawHandle(o, info.Owner, info.Repo, info.Ref, info.Filepath,
                              u, copyErr)
               [] info.Type = "archive" ->
                    ArchiveHandle(o, info.Owner, info.Repo, info.Ref, u, copyErr)
               [] info.Type = "git" ->
                    handleGit(o, info, reqPath, query, u, copyErr)
               [] info.Type = "gist" ->
                    GistHandle(o, info.User, info.GistID, info.Filename, u, copyErr)
               [] info.Type = "api" ->
                    APIHandle(o, method, info.APIPath, query, reqPath, u, copyErr)
               [] info.Type = "releases" ->
                    ReleasesHandle(o, info.Owner, info.Repo, info.Tag, info.Filename,
                                   u, copyErr)
               [] OTHER -> JSONReply(o, 400)

\* the handler of GET /*url in setupRoutes: a path that is no GitHub URL is
\* passed to c.Next(), and no handler is left in the chain to write anything
CatchAll(o, method, url, reqPath, query, u, copyErr) ==
    IF isGitHubURL(url) THEN URLHandle(o, method, reqPath, query, u, copyErr)
    ELSE o

(***************************************************************************)
(* Requests.  A request names the route gin matched, with the path it was  *)
(* matched on; the route parameters are read off the path as gin does.      *)
(***************************************************************************)
\* c.Param(...) for the routes of setupRoutes.  In /:owner/:repo.git/... the
\* parameter is named "repo.git", so c.Param("repo") is "" on the git routes.
RouteParams(route, path) ==
    CASE route = "raw" ->
            [NoInfo EXCEPT !.Owner = path[2], !.Repo = path[3], !.Ref = <<path[5]>>,
                           !.Filepath = WithLeadingSlash(From(path, 5))]
      [] route = "archive" ->
            [NoInfo EXCEPT !.Owner = path[2], !.Repo = path[3], !.Ref = <<path[5]>>]
      [] route = "releases" ->
            [NoInfo EXCEPT !.Owner = path[2], !.Repo = path[3], !.Tag = <<path[6]>>,
                           !.Filename = <<path[7]>>]
      [] route = "gist" ->
            [NoInfo EXCEPT !.User = path[3], !.GistID = path[4],
                           !.Filename = <<path[6]>>]
      [] route = "api" ->
            [NoInfo EXCEPT !.APIPath = WithLeadingSlash(From(path, 2))]
      [] route \in {"inforefs", "uploadpack", "receivepack"} ->
            [NoInfo EXCEPT !.Owner = path[2]]
      [] OTHER -> NoInfo

\* the Authorization header: its scheme, and for Basic whether the payload
\* decodes and holds a colon; user and pass are sequences of characters
Authz(scheme, form, user, pass) ==
    [scheme |-> scheme, form |-> form, user |-> user, pass |-> pass]

NoAuthz == Authz("none", "ok", <<>>, <<>>)

(***************************************************************************)
(* util.ExtractRealIP.  A header value and RemoteAddr are sequences of     *)
(* tokens: an address of IPs, ":", a port, ",", " ", "[", "]", and text    *)
(* that is no address                                                      *)
(***************************************************************************)
\* strings.Trim(s, cutset)
RECURSIVE Trim(_, _)
Trim(s, cutset) ==
    IF s = <<>> THEN s
    ELSE IF s[1] \in cutset THEN Trim(Tail(s), cutset)
    ELSE IF s[Len(s)] \in cutset THEN Trim(SubSeq(s, 1, Len(s) - 1), cutset)
    ELSE s

\* strings.Split(s, ",")[0]
RECURSIVE FirstOfList(_)
FirstOfList(s) ==
    IF s = <<>> \/ s[1] = "," THEN <<>> ELSE <<s[1]>> \o FirstOfList(Tail(s))

\* net.SplitHostPort: the host of host:port, the string itself on an error
SplitHostPort(s) ==
    IF Len(s) >= 3 /\ s[Len(s) - 1] = ":" /\ s[Len(s)] = "port"
    THEN SubSeq(s, 1, Len(s) - 2) ELSE s

\* parseIP: the address in ipStr as net.IP.String() writes it, "" if none
parseIP(ipStr) ==
    LET host == Trim(SplitHostPort(Trim(ipStr, {" "})), {"[", "]"})
    IN  IF Len(host) = 1 /\ host[1] \in IPs THEN host[1] ELSE ""

NoIPHeaders == [xRealIP |-> <<>>, xForwardedFor |-> <<>>, cfConnectingIP |-> <<>>,
                trueClientIP |-> <<>>]

\* ExtractRealIP: the first of X-Real-IP, X-Forwarded-For (its first
\* element), CF-Connecting-IP, True-Client-IP that holds an address, else
\* RemoteAddr
ExtractRealIP(r) ==
    IF parseIP(r.headers.xRealIP) # "" THEN parseIP(r.headers.xRealIP)
    ELSE IF parseIP(FirstOfList(r.headers.xForwardedFor)) # ""
         THEN parseIP(FirstOfList(r.headers.xForwardedFor))
    ELSE IF parseIP(r.headers.cfConnectingIP) # "" THEN parseIP(r.headers.cfConnectingIP)
    ELSE IF parseIP(r.headers.trueClientIP) # "" THEN parseIP(r.headers.trueClientIP)
    ELSE parseIP(r.remoteAddr)

\* RealIP: c.Set("client_ip", ip).  RemoteAddr is the address and port of the
\* connection, so ip is never "" and RateLimit never falls back to
\* c.ClientIP()
RealIP(r) == ExtractRealIP(r)

Request(route, method, path, query) ==
    [route |-> route, method |-> method, path |-> path, query |-> query,
     remoteAddr |-> <<"ip1", ":", "port">>, headers |-> NoIPHeaders,
     authz |-> NoAuthz]

ReadmePath == <<"", "octocat", "Hello-World", "raw", "master", "README">>
FullURL(scheme, host, rest) == <<"", scheme, "", host>> \o rest

RawRequests == {Request("raw", "GET", ReadmePath, "")}

FullURLRequests ==
    {Request("url", "GET", FullURL("https:", "github.com", Tail(ReadmePath)), ""),
     Request("url", "GET",
             FullURL("https:", "github.com",
                     <<"octocat", "Hello-World.git", "info", "refs">>),
             "git-upload-pack"),
     Request("url", "GET",
             FullURL("https:", "github.com",
                     <<"octocat", "Hello-World", "releases", "download", "v1", "a.bin">>),
             ""),
     Request("url", "GET", FullURL("http:", "127.0.0.1", <<"secret">>), ""),
     Request("url", "GET", FullURL("https:", "localhost", <<"secret">>), ""),
     Request("url", "GET", FullURL("https:", "evil.example", <<"x">>), "")}

OtherRequests ==
    {Request("gist", "GET", <<"", "gist", "octocat", "abc123", "raw", "f.txt">>, ""),
     Request("archive", "GET", <<"", "octocat", "Hello-World", "archive", "main.zip">>, ""),
     Request("archive", "GET", <<"", "octocat", "Hello-World", "archive", "main.rar">>, ""),
     Request("api", "GET", <<"", "api", "repos", "octocat", "Hello-World">>, ""),
     Request("api", "POST", <<"", "api", "repos", "octocat", "Hello-World">>, ""),
     Request("inforefs", "GET", <<"", "octocat", "Hello-World.git", "info", "refs">>,
             "git-upload-pack"),
     Request("uploadpack", "POST",
             <<"", "octocat", "Hello-World.git", "git-upload-pack">>, "")}

ContentRequests == RawRequests \cup FullURLRequests \cup OtherRequests

NoRequest == Request("none", "", Empty, "")

\* the keys whose responses hist follows
ReadmeKey == GenerateKey("raw", <<"octocat">>, <<"Hello-World">>, <<"master">>,
                         <<"", "README">>, Empty)
RawKeys == {ReadmeKey}

NoHist == [seen |-> FALSE, before |-> "none", xcache |-> "none", status |-> 0,
           body |-> "", complete |-> TRUE, up |-> NoUp, cacheable |-> FALSE,
           undisturbed |-> FALSE]

(***************************************************************************)
(* The middleware chain and the routes                                     *)
(***************************************************************************)
\* router.Group(basePath): whether the path lies under the base path, and the
\* path the routes of the group are matched on
UnderBase(path) ==
    /\ Len(path) > Len(cfg.basePath)
    /\ SubSeq(path, 1, Len(cfg.basePath)) = cfg.basePath

GroupPath(path) == <<"">> \o SubSeq(path, Len(cfg.basePath) + 1, Len(path))

\* the routes setupRoutes registers, and whether the pattern of one fits a
\* method and a path; p is the path within the group
Routes == {"url", "releases", "raw", "archive", "inforefs", "uploadpack",
           "receivepack", "gist", "api", "health"}

Named(p, i) == p[i] # ""

Matches(route, method, path) ==
    LET p == GroupPath(path)
        n == Len(p)
    IN  IF route = "health"
        THEN method = "GET" /\ (path = <<"", "health">>
                                \/ (UnderBase(path) /\ p = <<"", "health">>))
        ELSE /\ UnderBase(path)
             /\ CASE route = "url" -> method = "GET" /\ n >= 2
                  [] route = "releases" ->
                        /\ method = "GET" /\ n = 7
                        /\ p[4] = "releases" /\ p[5] = "download"
                        /\ \A i \in {2, 3, 6, 7} : Named(p, i)
                  [] route = "raw" ->
                        /\ method = "GET" /\ n >= 6 /\ p[4] = "raw"
                        /\ \A i \in {2, 3, 5} : Named(p, i)
                  [] route = "archive" ->
                        /\ method = "GET" /\ n = 5 /\ p[4] = "archive"
                        /\ \A i \in {2, 3, 5} : Named(p, i)
                  [] route = "inforefs" ->
                        /\ method = "GET" /\ n = 5 /\ p[4] = "info" /\ p[5] = "refs"
                        /\ \A i \in {2, 3} : Named(p, i)
                  [] route = "uploadpack" ->
                        /\ method = "POST" /\ n = 4 /\ p[4] = "git-upload-pack"
                        /\ \A i \in {2, 3} : Named(p, i)
                  [] route = "receivepack" ->
                        /\ method = "POST" /\ n = 4 /\ p[4] = "git-receive-pack"
                        /\ \A i \in {2, 3} : Named(p, i)
                  [] route = "gist" ->
                        /\ method = "GET" /\ n = 6 /\ p[2] = "gist" /\ p[5] = "raw"
                        /\ \A i \in {3, 4, 6} : Named(p, i)
                  [] route = "api" -> n >= 3 /\ p[2] = "api"

\* the route gin hands the request to: one whose pattern fits, in an order
\* among overlapping patterns that setupRoutes does not fix; "notfound" when
\* none fits
Resolves(route, method, path) ==
    IF route = "notfound" THEN \A r \in Routes : ~Matches(r, method, path)
    ELSE route \in Routes /\ Matches(route, method, path)

\* setupRouter: the handlers a request passes, in order
Chain ==
    (IF cfg.rateLimit THEN <<"RateLimit">> ELSE <<>>)
    \o (IF cfg.auth THEN <<"Auth">> ELSE <<>>) \o <<"route">>

AtRoute(route) ==
    /\ req.state = "running"
    /\ Chain[req.idx] = "route"
    /\ req.in.route = route

\* gin writes the header when the chain returns: 200 if nothing set a status
Finalize(o) == IF o.status = 0 THEN [o EXCEPT !.status = 200] ELSE o

\* the handler returns: its outcome is the response, its Set reaches the cache
Return(o, u) ==
    /\ resp' = [Finalize(o) EXCEPT !.ran = Append(@, "route")]
    /\ req' = [req EXCEPT !.state = "done"]
    /\ mem' = IF o.set /\ o.tier = "mem" THEN CacheSetMem(o.key, o.body, o.stored, o.ttl)
              ELSE mem
    /\ lru' = IF o.set /\ o.tier = "mem" THEN CacheSetLru(o.key)
              ELSE IF o.hit THEN Touched(lru, o.key) ELSE lru
    /\ disk' = IF o.set /\ o.tier = "disk"
               THEN [x \in DOMAIN disk \cup {o.key} |->
                        IF x = o.key
                        THEN [data |-> o.body, headers |-> o.stored,
                              expires |-> now + o.ttl]
                        ELSE disk[x]]
               ELSE disk
    /\ hist' = [k \in RawKeys |->
                  IF o.handler = "raw" /\ o.key = k
                  THEN [seen |-> TRUE, before |-> hist[k].xcache,
                        xcache |-> o.xcache, status |-> o.status,
                        body |-> o.body, complete |-> o.complete, up |-> o.up,
                        cacheable |-> ContentLength(u) > 0 /\ ContentLength(u) < RawCeiling,
                        undisturbed |-> TRUE]
                  ELSE IF o.set /\ o.tier = "mem" /\ k \in Evicted(o.key)
                  THEN [hist[k] EXCEPT !.undisturbed = FALSE]
                  ELSE hist[k]]
    /\ UNCHANGED <<authc, client, sec, ssh, now, rl, limiters, heap, proc, allowLog, cfg, store>>

\* a request arrives, SecurityHeaders sets its headers and calls c.Next(),
\* and the request enters the rest of the chain
Arrive(r) ==
    /\ req.state = "idle"
    /\ req' = [state |-> "running", idx |-> 1, in |-> r]
    /\ resp' = [resp EXCEPT !.headers = SetHeaders(@, SecurityHeaderValues)]
    /\ UNCHANGED <<authc, client, sec, ssh, now, rl, limiters, heap, proc, allowLog, cfg, mem, lru, disk,
                   store, hist>>

\* the response has left; the connection is ready for the next request
Done ==
    /\ req.state = "done"
    /\ req' = [state |-> "idle", idx |-> 0, in |-> NoRequest]
    /\ resp' = NoOutcome
    /\ UNCHANGED <<authc, client, sec, ssh, now, rl, limiters, heap, proc, allowLog, cfg, mem, lru, disk,
                   store, hist>>

\* c.Next(): the next handler of the chain runs
Pass(o, name) ==
    /\ resp' = [o EXCEPT !.ran = Append(@, name)]
    /\ req' = [req EXCEPT !.idx = @ + 1]

\* c.AbortWithStatusJSON(code, ...): the rest of the chain is skipped
Abort(o, name, code) ==
    /\ resp' = JSONReply([o EXCEPT !.ran = Append(@, name)], code)
    /\ req' = [req EXCEPT !.state = "done"]

\* RateLimit, mutated: the request goes on although Allow said no
RateLimitNoAbort ==
    /\ req.state = "running"
    /\ Chain[req.idx] = "RateLimit"
    /\ LET ip == RealIP(req.in)
           found == limiters[ip] # NoEntry
           e == IF found THEN updateLastSeen(heap[limiters[ip]], now)
                ELSE newLimiterEntry(rl.rate, rl.burst, now)
       IN  /\ heap' = IF found THEN [heap EXCEPT ![limiters[ip]] = LimiterTake(e, now)]
                      ELSE Append(heap, LimiterTake(e, now))
           /\ limiters' = IF found THEN limiters
                          ELSE [limiters EXCEPT ![ip] = Len(heap) + 1]
           /\ Pass([resp EXCEPT !.limited = ~LimiterAllows(e, now)], "RateLimit")
    /\ UNCHANGED <<authc, client, sec, ssh, now, rl, proc, allowLog, cfg, mem, lru, disk, store, hist>>

\* the RateLimit middleware: limiter.Allow(clientIP), run by one goroutine
\* without interference, then 429 or c.Next()
RateLimitMW ==
    /\ req.state = "running"
    /\ Chain[req.idx] = "RateLimit"
    /\ LET ip == RealIP(req.in)
           found == limiters[ip] # NoEntry
           e == IF found THEN updateLastSeen(heap[limiters[ip]], now)
                ELSE newLimiterEntry(rl.rate, rl.burst, now)
       IN  /\ heap' = IF found THEN [heap EXCEPT ![limiters[ip]] = LimiterTake(e, now)]
                      ELSE Append(heap, LimiterTake(e, now))
           /\ limiters' = IF found THEN limiters
                          ELSE [limiters EXCEPT ![ip] = Len(heap) + 1]
           /\ IF LimiterAllows(e, now)
              THEN Pass(resp, "RateLimit")
              ELSE Abort([resp EXCEPT !.limited = TRUE], "RateLimit", 429)
    /\ UNCHANGED <<authc, client, sec, ssh, now, rl, proc, allowLog, cfg, mem, lru, disk, store, hist>>

(***************************************************************************)
(* Authentication: the Auth middleware, auth.Cache and ValidateBasicAuth   *)
(***************************************************************************)
\* what GET https://api.github.com/user answers; 0 is an error of client.Do
AuthAnswers == {0, 200, 401, 403, 500}

NoToken == [Value |-> <<>>, ValidatedAt |-> 0, ExpiresAt |-> 0]

\* NewCache(ttl): the ttl the cache keeps, 1 hour when 0 is passed
NewCache(ttl) == IF ttl = 0 THEN 60 * Minute ELSE ttl

\* Cache.makeKey: the digest of username + ":" + password
makeKey(username, password) == username \o <<":">> \o password

\* Token.IsExpired, mutated: a token never expires
NeverExpired(token, t) == FALSE

\* Token.IsExpired: time.Now().After(t.ExpiresAt)
IsExpired(token, t) == t > token.ExpiresAt

\* Cache.Get returns a token: one is stored and it has not expired
AuthCacheHit(key) == key \in DOMAIN store /\ ~IsExpired(store[key], now)

\* the store after Cache.Get: an expired token is deleted
AuthCacheGet(key) ==
    IF key \in DOMAIN store /\ IsExpired(store[key], now) THEN Without(store, key)
    ELSE store

\* Cache.Set
AuthCacheSet(st, key, token) ==
    [x \in DOMAIN st \cup {key} |-> IF x = key THEN token ELSE st[x]]

\* ValidateBasicAuthWithContext, mutated: only a 401 is a failure
ValidateAllBut401(password, answer) ==
    IF password = <<>>
    THEN [token |-> NoToken, err |-> TRUE, contacted |-> FALSE]
    ELSE IF answer = 401
    THEN [token |-> NoToken, err |-> TRUE, contacted |-> TRUE]
    ELSE [token |-> [Value |-> password, ValidatedAt |-> now,
                     ExpiresAt |-> now + AuthTTL],
          err |-> FALSE, contacted |-> TRUE]

\* ValidateBasicAuthWithContext
ValidateBasicAuth(password, answer) ==
    IF password = <<>>
    THEN [token |-> NoToken, err |-> TRUE, contacted |-> FALSE]
    ELSE IF answer # 200
    THEN [token |-> NoToken, err |-> TRUE, contacted |-> TRUE]
    ELSE [token |-> [Value |-> password, ValidatedAt |-> now,
                     ExpiresAt |-> now + AuthTTL],
          err |-> FALSE, contacted |-> TRUE]

\* handleBasicAuth and handleBearerAuth from the cache lookup on
GetOrValidate(username, password, answer) ==
    LET key == makeKey(username, password)
        v == ValidateBasicAuth(password, answer)
    IN  IF AuthCacheHit(key)
        THEN [err |-> FALSE, contacted |-> FALSE, verdict |-> "cached",
              expired |-> FALSE, store |-> AuthCacheGet(key)]
        ELSE [err |-> v.err, contacted |-> v.contacted,
              expired |-> key \in DOMAIN store,
              verdict |-> IF v.err THEN "none" ELSE "fresh",
              store |-> IF v.err THEN AuthCacheGet(key)
                        ELSE AuthCacheSet(AuthCacheGet(key), key, v.token)]

\* handleBasicAuth: a payload that is not base64 is an error; one without a
\* colon returns (nil, err) with the nil err of the decoder
handleBasicAuth(a, answer) ==
    CASE a.form = "badbase64" ->
            [err |-> TRUE, contacted |-> FALSE, verdict |-> "none",
             expired |-> FALSE, store |-> store]
      [] a.form = "nocolon" ->
            [err |-> FALSE, contacted |-> FALSE, verdict |-> "none",
             expired |-> FALSE, store |-> store]
      [] OTHER -> GetOrValidate(a.user, a.pass, answer)

\* handleBearerAuth: the token is looked up under the empty username
handleBearerAuth(a, answer) == GetOrValidate(<<>>, a.pass, answer)

\* Cache.GetOrValidateWithContext, called on the cache directly
CacheGetOrValidate(username, password) ==
    /\ req.state = "idle"
    /\ \E answer \in AuthAnswers :
          LET r == GetOrValidate(username, password, answer)
          IN  /\ store' = r.store
              /\ resp' = [NoOutcome EXCEPT
                            !.handler = "auth.Cache",
                            !.key = makeKey(username, password),
                            !.validations = IF r.contacted THEN 1 ELSE 0,
                            !.verdict = r.verdict, !.expired = r.expired,
                            !.answer = IF r.contacted THEN answer ELSE NoAnswer]
    /\ UNCHANGED <<authc, client, sec, ssh, now, rl, limiters, heap, proc, allowLog, cfg, mem, lru, disk, req,
                   hist>>

\* Cache.Cleanup, run by the task of StartCleanupTask
AuthCleanup ==
    /\ \E k \in DOMAIN store : IsExpired(store[k], now)
    /\ store' = [k \in {x \in DOMAIN store : ~IsExpired(store[x], now)} |-> store[k]]
    /\ UNCHANGED <<authc, client, sec, ssh, now, rl, limiters, heap, proc, allowLog, cfg, mem, lru, disk, req,
                   resp, hist>>

\* the Auth middleware
AuthMW ==
    /\ req.state = "running"
    /\ Chain[req.idx] = "Auth"
    /\ \E answer \in AuthAnswers :
          LET a == req.in.authz
              r == IF a.scheme = "Basic" THEN handleBasicAuth(a, answer)
                   ELSE handleBearerAuth(a, answer)
              o == [resp EXCEPT !.validations = IF r.contacted THEN @ + 1 ELSE @,
                                !.verdict = r.verdict, !.expired = r.expired,
                                !.answer = IF r.contacted THEN answer ELSE @]
          IN  IF a.scheme = "none"
              THEN /\ IF cfg.allowAnonymous THEN Pass(resp, "Auth")
                      ELSE Abort(resp, "Auth", 401)
                   /\ store' = store
              ELSE IF a.scheme \notin {"Basic", "Bearer"}
              THEN Abort(resp, "Auth", 401) /\ store' = store
              ELSE /\ IF r.err THEN Abort(o, "Auth", 401) ELSE Pass(o, "Auth")
                   /\ store' = r.store
    /\ UNCHANGED <<authc, client, sec, ssh, now, rl, limiters, heap, proc, allowLog, cfg, mem, lru, disk, hist>>

\* GET /:owner/:repo/raw/:ref/*filepath
RawRoute ==
    /\ AtRoute("raw")
    /\ \E u \in Upstream, copyErr \in BOOLEAN :
          LET p == RouteParams("raw", GroupPath(req.in.path))
          IN  Return(RawHandle(resp, p.Owner, p.Repo, p.Ref, p.Filepath, u, copyErr), u)

\* GET /gist/:user/:gist_id/raw/:file
GistRoute ==
    /\ AtRoute("gist")
    /\ \E u \in Upstream, copyErr \in BOOLEAN :
          LET p == RouteParams("gist", GroupPath(req.in.path))
          IN  Return(GistHandle(resp, p.User, p.GistID, p.Filename, u, copyErr), u)

\* GET /:owner/:repo/archive/:ref
ArchiveRoute ==
    /\ AtRoute("archive")
    /\ \E u \in Upstream, copyErr \in BOOLEAN :
          LET p == RouteParams("archive", GroupPath(req.in.path))
          IN  Return(ArchiveHandle(resp, p.Owner, p.Repo, p.Ref, u, copyErr), u)

\* Any /api/*path
APIRoute ==
    /\ AtRoute("api")
    /\ \E u \in Upstream, copyErr \in BOOLEAN :
          LET p == RouteParams("api", GroupPath(req.in.path))
          IN  Return(APIHandle(resp, req.in.method, p.APIPath, req.in.query,
                               req.in.path, u, copyErr), u)

\* GET /:owner/:repo.git/info/refs
InfoRefsRoute ==
    /\ AtRoute("inforefs")
    /\ \E u \in Upstream, copyErr \in BOOLEAN :
          LET p == RouteParams("inforefs", GroupPath(req.in.path))
          IN  Return(HandleInfoRefs(resp, p.Owner, p.Repo, req.in.query, u, copyErr), u)

\* POST /:owner/:repo.git/git-upload-pack
UploadPackRoute ==
    /\ AtRoute("uploadpack")
    /\ \E u \in Upstream, copyErr \in BOOLEAN :
          LET p == RouteParams("uploadpack", GroupPath(req.in.path))
          IN  Return(HandlePack(resp, p.Owner, p.Repo, "git-upload-pack", u, copyErr), u)

\* GET /*url
FullURLRoute ==
    /\ AtRoute("url")
    /\ \E u \in Upstream, copyErr \in BOOLEAN :
          Return(CatchAll(resp, req.in.method, GroupPath(req.in.path), req.in.path,
                          req.in.query, u, copyErr), u)

\* GET /health, at the root and in the group: handleHealth
HealthRoute ==
    /\ AtRoute("health")
    /\ Return(JSONReply([resp EXCEPT !.handler = "health"], 200), TransportError)

\* no route fits: gin answers 404
NoRoute ==
    /\ AtRoute("notfound")
    /\ Return([resp EXCEPT !.status = 404, !.body = "404 page not found"],
              TransportError)

\* the wall clock moves on by half an hour; entries whose expiry passes are
\* no longer served
AdvanceHalfHour ==
    /\ now + HalfHour <= MaxHalfHours * HalfHour
    /\ now' = now + HalfHour
    /\ hist' = [k \in RawKeys |->
                  IF k \in DOMAIN mem /\ now + HalfHour > mem[k].expires
                  THEN [hist[k] EXCEPT !.undisturbed = FALSE] ELSE hist[k]]
    /\ UNCHANGED <<authc, client, sec, ssh, rl, limiters, heap, proc, allowLog, cfg, mem, lru, disk, store,
                   req, resp>>

\* the cache sweeper removes the expired entries of both tiers
Sweep ==
    LET deadMem == {k \in DOMAIN mem : now > mem[k].expires}
        deadDisk == {k \in DOMAIN disk : now > disk[k].expires}
    IN  /\ deadMem \cup deadDisk # {}
        /\ mem' = [k \in DOMAIN mem \ deadMem |-> mem[k]]
        /\ lru' = SelectSeq(lru, LAMBDA k : k \notin deadMem)
        /\ disk' = [k \in DOMAIN disk \ deadDisk |-> disk[k]]
        /\ UNCHANGED <<authc, client, sec, ssh, now, rl, limiters, heap, proc, allowLog, cfg, store, req,
                       resp, hist>>

(***************************************************************************)
(* The SSH tunnel.  An exec payload is the sequence of its characters;     *)
(* the words the code compares as a whole (the operation, ".git") are one  *)
(* letter each.                                                            *)
(***************************************************************************)
\* strings.Split(s, sep) for a one-letter separator
RECURSIVE Split(_, _)
Split(s, sep) ==
    IF \A i \in DOMAIN s : s[i] # sep THEN <<s>>
    ELSE LET i == CHOOSE j \in DOMAIN s :
                      s[j] = sep /\ \A k \in 1..(j - 1) : s[k] # sep
         IN  <<SubSeq(s, 1, i - 1)>> \o Split(SubSeq(s, i + 1, Len(s)), sep)

\* strings.Fields(s): the words between the blanks
Fields(s) == SelectSeq(Split(s, " "), LAMBDA w : w # <<>>)

\* strings.TrimSuffix(s, ".git")
TrimSuffixGit(s) ==
    IF s # <<>> /\ s[Len(s)] = ".git" THEN SubSeq(s, 1, Len(s) - 1) ELSE s

\* strings.Contains(s, "..")
ContainsDotDot(s) == \E i \in 1..(Len(s) - 1) : s[i] = "." /\ s[i + 1] = "."

\* strings.Contains(s, "/")
ContainsSlash(s) == \E i \in DOMAIN s : s[i] = "/"

Alnum == {"a", "b", "7"}

\* the letters isValidGitHubName lets through
NameLetters == Alnum \cup {"-", "_", ".", ".git"}

\* isValidGitHubName
isValidGitHubName(name) ==
    /\ name \notin {<<>>, <<".">>, <<".", ".">>}
    /\ \A i \in DOMAIN name : name[i] \in NameLetters

NoCommand == [Operation |-> "", Owner |-> <<>>, Repo |-> <<>>, RepoPath |-> <<>>,
              err |-> TRUE]

\* parseRepoPath: owner, repo, err
parseRepoPath(path) ==
    LET parts == Split(TrimSuffixGit(Trim(path, {"/"})), "/")
    IN  IF Len(parts) < 2 THEN NoCommand
        ELSE IF parts[1] = <<>> \/ parts[2] = <<>> THEN NoCommand
        ELSE IF ~isValidGitHubName(parts[1]) THEN NoCommand
        ELSE IF ~isValidGitHubName(parts[2]) THEN NoCommand
        ELSE [NoCommand EXCEPT !.Owner = parts[1], !.Repo = parts[2], !.err = FALSE]

GitOperations == {"git-upload-pack", "git-receive-pack"}

\* parseGitCommand
parseGitCommand(command) ==
    LET parts == Fields(command)
        gitOp == parts[1]
        repoPath == Trim(parts[2], {"'", "\""})
        parsed == parseRepoPath(repoPath)
    IN  IF Len(parts) < 2 THEN NoCommand
        ELSE IF gitOp \notin {<<op>> : op \in GitOperations} THEN NoCommand
        ELSE IF parsed.err THEN NoCommand
        ELSE [parsed EXCEPT !.Operation = gitOp[1], !.RepoPath = repoPath]

\* GitCommand.Validate: TRUE when it returns no error
Validate(g) ==
    /\ g.Operation # ""
    /\ g.Operation \in GitOperations
    /\ g.Owner # <<>>
    /\ g.Repo # <<>>
    /\ ~(ContainsDotDot(g.Owner) \/ ContainsDotDot(g.Repo))
    /\ ~(ContainsSlash(g.Owner) \/ ContainsSlash(g.Repo))

\* GitCommand.FormatGitHubCommand
FormatGitHubCommand(g) ==
    <<g.Operation, " ", "'">> \o g.Owner \o <<"/">> \o g.Repo \o <<".git", "'">>

\* security.ValidateOwner: ownerRegex and the length limit
MaxOwnerLen == 39
ValidateOwner(owner) ==
    /\ owner # <<>>
    /\ Len(owner) <= MaxOwnerLen
    /\ \A i \in DOMAIN owner : owner[i] \in Alnum \cup {"-"}
    /\ owner[1] # "-" /\ owner[Len(owner)] # "-"

\* security.ValidateRepo: repoRegex, the length limit and the reserved ends
MaxRepoLen == 100
ValidateRepo(repo) ==
    /\ repo # <<>>
    /\ Len(repo) <= MaxRepoLen
    /\ \A i \in DOMAIN repo : repo[i] \in Alnum \cup {".", "_", "-", ".git"}
    /\ repo[1] \notin {".", ".git"} /\ repo[Len(repo)] # "."
    /\ repo[1] # "-" /\ repo[Len(repo)] # "-"

\* Session.handleExec up to the call of connectToGitHub: whether the request
\* is replied to with true, whether an error line is written, the exit
\* status settled before any connection (NoExit when none is), and whether
\* the origin is dialled
NoExit == 0 - 1
execDecision(payload) ==
    LET g == parseGitCommand(payload)
    IN  IF g.err THEN [cmd |-> g, reply |-> FALSE, line |-> TRUE, exit |-> 1,
                       dial |-> FALSE]
        ELSE IF ~Validate(g)
        THEN [cmd |-> g, reply |-> TRUE, line |-> TRUE, exit |-> 1, dial |-> FALSE]
        ELSE [cmd |-> g, reply |-> TRUE, line |-> FALSE, exit |-> NoExit, dial |-> TRUE]

\* the tunnel before anything happened.  requests, closed: the session
\* channel's request stream and whether the client has closed it; pc: where
\* Session.Handle stands; c2o, o2c: the two copying goroutines of
\* handleGitPassthrough; errChan: the directions that reported an error;
\* broke: the directions whose io.Copy failed; clientEOF, originEOF: the peer
\* has ended the stream it sends; stdin, stdout: the two directions of the
\* outbound session; clientWrite, clientRead: those of the client channel;
\* dials: outbound sessions opened; exits: the exit-status requests sent;
\* lines: error lines written to the channel
\* the connections a client may open, and a connection before it is accepted
Conns == 1..MaxConns
NoConn == [state |-> "none", chans |-> 0]

NoSSH == [payload |-> <<>>, decided |-> FALSE,
          decision |-> [cmd |-> NoCommand, reply |-> FALSE, line |-> FALSE,
                        exit |-> NoExit, dial |-> FALSE],
          requests |-> <<>>, sent |-> 0, closed |-> FALSE, pc |-> "wait",
          c2o |-> "none", o2c |-> "none", errChan |-> {}, broke |-> {},
          clientEOF |-> FALSE, originEOF |-> FALSE,
          stdin |-> "none", stdout |-> "none",
          clientWrite |-> "open", clientRead |-> "open",
          dials |-> 0, exits |-> <<>>, lines |-> 0,
          listener |-> "none", stop |-> "none", wg |-> 0,
          accept |-> "none", conns |-> [c \in Conns |-> NoConn], main |-> "serving"]

\* the exec and shell requests a client puts on the session channel
ExecRequest(payload) == [type |-> "exec", payload |-> payload]

SessionRequests ==
    {ExecRequest(<<"git-upload-pack", " ", "'", "a", "/", "b", "'">>),
     ExecRequest(<<"git-upload-pack", " ", "'", "a", ".", ".", "/", "b", "'">>),
     ExecRequest(<<"git-upload-archive", " ", "'", "a", "/", "b", "'">>),
     [type |-> "shell", payload |-> <<>>]}

\* the client sends a request on the session channel
ClientSends(r) ==
    /\ ~ssh.closed
    /\ ssh.sent < MaxRequests
    /\ ssh' = [ssh EXCEPT !.requests = Append(@, r), !.sent = @ + 1]
    /\ UNCHANGED httpVars

\* the client closes the session channel: the request stream ends
ClientCloses ==
    /\ ~ssh.closed
    /\ ssh' = [ssh EXCEPT !.closed = TRUE, !.clientEOF = TRUE]
    /\ UNCHANGED httpVars

\* the client ends the stream it sends, keeping the channel
ClientEOF ==
    /\ ~ssh.clientEOF
    /\ ssh' = [ssh EXCEPT !.clientEOF = TRUE]
    /\ UNCHANGED httpVars

\* the origin ends its output
OriginEOF ==
    /\ ssh.pc = "bridge"
    /\ ~ssh.originEOF
    /\ ssh' = [ssh EXCEPT !.originEOF = TRUE]
    /\ UNCHANGED httpVars

\* the exit-status request, with what was true when it was sent
ExitStatus(status, t) ==
    [status |-> status, accepted |-> t.decision.reply,
     established |-> t.pc = "bridge", broke |-> t.broke,
     finished |-> t.c2o = "done" /\ t.o2c = "done"]

\* Session.Handle takes the next request.  An exec is parsed and validated
\* and the origin is dialled; connected: whether connectToGitHub succeeds
HandleRequest(connected) ==
    /\ ssh.pc = "wait"
    /\ ssh.requests # <<>>
    /\ LET r == Head(ssh.requests)
           d == execDecision(r.payload)
           t == [ssh EXCEPT !.requests = Tail(@), !.payload = r.payload,
                            !.decision = d]
       IN  ssh' = IF r.type # "exec"
                  THEN [ssh EXCEPT !.requests = Tail(@), !.lines = @ + 1]
                  ELSE IF ~d.dial
                  THEN [t EXCEPT !.lines = @ + 1,
                                 !.exits = Append(@, ExitStatus(1, t))]
                  ELSE IF ~connected
                  THEN [t EXCEPT !.lines = @ + 1,
                                 !.exits = Append(@, ExitStatus(1, t))]
                  ELSE [t EXCEPT !.pc = "bridge", !.dials = @ + 1,
                                 !.stdin = "open", !.stdout = "open",
                                 !.originEOF = FALSE,
                                 !.c2o = "copying", !.o2c = "copying",
                                 !.errChan = {}, !.broke = {}]
    /\ UNCHANGED httpVars

\* the request stream has ended: Handle returns and closes the channel
HandleReturns ==
    /\ ssh.pc = "wait"
    /\ ssh.requests = <<>>
    /\ ssh.closed
    /\ ssh' = [ssh EXCEPT !.pc = "returned", !.clientWrite = "closed",
                          !.clientRead = "closed"]
    /\ UNCHANGED httpVars

\* io.Copy of direction d returns nil: its source has ended
CopyEnds(d) ==
    /\ ssh.pc = "bridge"
    /\ ssh[d] = "copying"
    /\ IF d = "c2o" THEN ssh.clientEOF ELSE ssh.originEOF
    /\ ssh' = [ssh EXCEPT ![d] = "ended"]
    /\ UNCHANGED httpVars

\* io.Copy of direction d returns an error, which goes to errChan
CopyFails(d) ==
    /\ ssh.pc = "bridge"
    /\ ssh[d] = "copying"
    /\ ssh' = [ssh EXCEPT ![d] = "ended", !.errChan = @ \cup {d},
                          !.broke = @ \cup {d}]
    /\ UNCHANGED httpVars

\* CloseWrite, mutated: closes the session like Close
CloseBoth(t, d) ==
    IF d = "c2o" THEN [t EXCEPT !.stdin = "closed", !.stdout = "closed"]
    ELSE [t EXCEPT !.clientWrite = "closed", !.clientRead = "closed"]

\* githubChannelWrapper.CloseWrite for the copy towards the origin, the
\* client channel's CloseWrite for the copy towards the client
CloseWrite(t, d) ==
    IF d = "c2o" THEN [t EXCEPT !.stdin = "closed"]
    ELSE [t EXCEPT !.clientWrite = "closed"]

\* after io.Copy the goroutine of direction d half-closes its destination
\* and is done
CopyCloses(d) ==
    /\ ssh.pc = "bridge"
    /\ ssh[d] = "ended"
    /\ ssh' = [CloseWrite(ssh, d) EXCEPT ![d] = "done"]
    /\ UNCHANGED httpVars

\* the exit code, mutated: errors are not looked at
ExitCodeZero(errs) == 0

\* for err := range errChan { return 1 }; return 0
ExitCode(errs) == IF errs # {} THEN 1 ELSE 0

\* wg.Wait() returns: the exit code is settled, the outbound session is
\* closed and exit-status is sent
BridgeReturns ==
    /\ ssh.pc = "bridge"
    /\ ssh.c2o = "done" /\ ssh.o2c = "done"
    /\ ssh' = [ssh EXCEPT !.pc = "wait", !.c2o = "none", !.o2c = "none",
                          !.stdin = "none", !.stdout = "none",
                          !.exits = Append(@, ExitStatus(ExitCode(ssh.errChan), ssh))]
    /\ UNCHANGED httpVars

\* the names and the payloads the exec parser is run on
Names == Seqs({"a", "b", "-", "_", "."}, 1, MaxName)

Quoted(q, path) == IF q = "" THEN path ELSE <<q>> \o path \o <<q>>

ExecNames ==
    {<<op, " ">> \o Quoted("'", owner \o <<"/">> \o repo) :
        op \in GitOperations, owner \in Names, repo \in Names}

ExecForms ==
    {<<op>> \o sep \o Quoted(q, lead \o <<"a", "/", "b">> \o git \o more) \o extra :
        op \in GitOperations \cup {"git-upload-archive"},
        sep \in {<<" ">>, <<" ", " ">>},
        q \in {"", "'", "\""},
        lead \in {<<>>, <<"/">>},
        git \in {<<>>, <<".git">>},
        more \in {<<>>, <<"/", "c">>},
        extra \in {<<>>, <<" ", "-", "-", "a">>}}
    \cup {<<"git-upload-pack">>, <<"git-upload-pack", " ", "'", "a", "'">>, <<>>}

\* one exec request is parsed and decided
Exec(payload) ==
    /\ ~ssh.decided
    /\ ssh' = [NoSSH EXCEPT !.payload = payload, !.decided = TRUE,
                            !.decision = execDecision(payload)]
    /\ UNCHANGED httpVars

ExecDone ==
    /\ ssh.decided
    /\ ssh' = NoSSH
    /\ UNCHANGED httpVars

\* ---- Server start and stop, and main's shutdown around it ----

\* Server.Start: listen, then run acceptLoop in a goroutine counted in wg
Start ==
    /\ ssh.main = "serving"
    /\ ssh.listener = "none"
    /\ ssh' = [ssh EXCEPT !.listener = "open", !.accept = "running", !.wg = @ + 1]
    /\ UNCHANGED httpVars

\* acceptLoop: Accept returns a connection, handleConnection is started for it
Accept(c) ==
    /\ ssh.main # "exited"
    /\ ssh.accept = "running"
    /\ ssh.listener = "open"
    /\ ssh.conns[c].state = "none"
    /\ ssh' = [ssh EXCEPT !.conns[c].state = "open", !.wg = @ + 1]
    /\ UNCHANGED httpVars

\* handleConnection: the client opens a channel, handleChannel is started for it
NewChannel(c) ==
    /\ ssh.main # "exited"
    /\ ssh.conns[c].state = "open"
    /\ ssh.conns[c].chans < MaxChannels
    /\ ssh' = [ssh EXCEPT !.conns[c].chans = @ + 1, !.wg = @ + 1]
    /\ UNCHANGED httpVars

\* handleChannel returns: the client has ended the session on the channel
ChannelEnds(c) ==
    /\ ssh.main # "exited"
    /\ ssh.conns[c].chans > 0
    /\ ssh' = [ssh EXCEPT !.conns[c].chans = @ - 1, !.wg = @ - 1]
    /\ UNCHANGED httpVars

\* handleConnection returns: the client has closed the connection and the
\* channel stream has ended
ConnEnds(c) ==
    /\ ssh.main # "exited"
    /\ ssh.conns[c].state = "open"
    /\ ssh' = [ssh EXCEPT !.conns[c].state = "done", !.wg = @ - 1]
    /\ UNCHANGED httpVars

\* Server.Stop up to its wait: cancel the context and close the listener
StopCalled ==
    /\ ssh.main = "shutdown"
    /\ ssh.stop = "none"
    /\ ssh' = [ssh EXCEPT !.listener = "closed", !.stop = "waiting"]
    /\ UNCHANGED httpVars

\* acceptLoop: Accept fails on the closed listener and the context is done
AcceptLoopReturns ==
    /\ ssh.main # "exited"
    /\ ssh.accept = "running"
    /\ ssh.listener = "closed"
    /\ ssh' = [ssh EXCEPT !.accept = "returned", !.wg = @ - 1]
    /\ UNCHANGED httpVars

\* Server.Stop: wg.Wait() has returned
WaitDone == ssh.wg = 0

\* Server.Stop returns
StopReturns ==
    /\ ssh.main # "exited"
    /\ ssh.stop = "waiting"
    /\ WaitDone
    /\ ssh' = [ssh EXCEPT !.stop = "returned"]
    /\ UNCHANGED httpVars

\* main: a signal or a server error starts the shutdown
Signal ==
    /\ ssh.main = "serving"
    /\ ssh.listener = "open"
    /\ ssh' = [ssh EXCEPT !.main = "shutdown"]
    /\ UNCHANGED httpVars

\* main: the shutdowns have completed
ShutdownDone ==
    /\ ssh.main = "shutdown"
    /\ ssh.stop = "returned"
    /\ ssh' = [ssh EXCEPT !.main = "exited"]
    /\ UNCHANGED httpVars

\* main: the shutdown timeout (30 s by default) has passed with Stop still
\* waiting; main returns and the process ends. The timeout is long against
\* the server's own steps, so it passes only when none of them can be taken.
ShutdownTimeout ==
    /\ ssh.main = "shutdown"
    /\ ssh.stop = "waiting"
    /\ ssh.accept = "returned"
    /\ ~WaitDone
    /\ ssh' = [ssh EXCEPT !.main = "exited"]
    /\ UNCHANGED httpVars

(***************************************************************************)
(* package security: ValidateGitHubURL.  A host name is the sequence of    *)
(* its labels and dots, "api.github.com" is <<"api", ".", "github", ".",   *)
(* "com">>, and a label may itself be two words run together:              *)
(* "evilgithub.com" is <<"evil", "github", ".", "com">>.  An IP address is *)
(* its bytes.                                                              *)
(***************************************************************************)
Max(a, b) == IF a > b THEN a ELSE b

HasSuffix(s, suffix) ==
    /\ Len(s) >= Len(suffix)
    /\ SubSeq(s, Len(s) - Len(suffix) + 1, Len(s)) = suffix

\* strings.ToLower
ToLower(s) == [i \in DOMAIN s |-> IF s[i] = "GitHub" THEN "github" ELSE s[i]]

allowedGitHubDomains ==
    { <<"github", ".", "com">>,
      <<"api", ".", "github", ".", "com">>,
      <<"raw", ".", "githubusercontent", ".", "com">>,
      <<"githubusercontent", ".", "com">>,
      <<"github", ".", "io">>,
      <<"codeload", ".", "github", ".", "com">>,
      <<"gist", ".", "github", ".", "com">>,
      <<"objects", ".", "githubusercontent", ".", "com">>,
      <<"avatars", ".", "githubusercontent", ".", "com">>,
      <<"cloud", ".", "githubusercontent", ".", "com">> }

\* isAllowedGitHubDomain, mutated: the suffix is matched without the dot
isAllowedGitHubDomainNoDot(host) ==
    \E domain \in allowedGitHubDomains :
        ToLower(host) = domain \/ HasSuffix(ToLower(host), domain)

isAllowedGitHubDomain(host) ==
    \E domain \in allowedGitHubDomains :
        ToLower(host) = domain \/ HasSuffix(ToLower(host), <<".">> \o domain)

IPv4(a, b, c, d) == [v |-> 4, b |-> <<a, b, c, d>>]
IPv6(a, b, z) == [v |-> 6, b |-> <<a, b>> \o [i \in 1..13 |-> 0] \o <<z>>]
CIDR(ip, len) == [v |-> ip.v, b |-> ip.b, len |-> len]

privateIPRanges ==
    { CIDR(IPv4(10, 0, 0, 0), 8),
      CIDR(IPv4(172, 16, 0, 0), 12),
      CIDR(IPv4(192, 168, 0, 0), 16),
      CIDR(IPv4(127, 0, 0, 0), 8),
      CIDR(IPv4(169, 254, 0, 0), 16),
      CIDR(IPv6(0, 0, 1), 128),
      CIDR(IPv6(252, 0, 0), 7),
      CIDR(IPv6(254, 128, 0), 10) }

\* net.IPNet.Contains: the first len bits of the address are those of the net
Contains(ipNet, ip) ==
    /\ ip.v = ipNet.v
    /\ \A i \in DOMAIN ip.b :
          LET bits == Min(8, Max(0, ipNet.len - 8 * (i - 1)))
              unit == 2 ^ (8 - bits)
          IN  ip.b[i] \div unit = ipNet.b[i] \div unit

\* net.IP.IsLoopback
IsLoopback(ip) == IF ip.v = 4 THEN ip.b[1] = 127 ELSE ip = IPv6(0, 0, 1)

\* net.IP.IsLinkLocalUnicast
IsLinkLocalUnicast(ip) ==
    IF ip.v = 4 THEN ip.b[1] = 169 /\ ip.b[2] = 254
    ELSE ip.b[1] = 254 /\ ip.b[2] \div 64 = 2

\* net.IP.IsLinkLocalMulticast
IsLinkLocalMulticast(ip) ==
    IF ip.v = 4 THEN ip.b[1] = 224 /\ ip.b[2] = 0 /\ ip.b[3] = 0
    ELSE ip.b[1] = 255 /\ ip.b[2] % 16 = 2

isPrivateIP(ip) ==
    \/ IsLoopback(ip)
    \/ IsLinkLocalUnicast(ip) \/ IsLinkLocalMulticast(ip)
    \/ \E cidr \in privateIPRanges : Contains(cidr, ip)

\* ValidateGitHubURL up to the lookup: the error returned, "lookup" when
\* the host is to be resolved
BeforeResolve(u) ==
    IF u.form = "empty" THEN "empty"
    ELSE IF u.form = "invalid" THEN "parse"
    ELSE IF u.scheme # "http" /\ u.scheme # "https" THEN "scheme"
    ELSE IF u.host = <<>> THEN "host"
    ELSE IF ~isAllowedGitHubDomain(u.host) THEN "domain"
    ELSE "lookup"

\* ValidateGitHubURL after net.LookupIP has answered: the error returned,
\* "none" for nil
AfterResolve(answer) ==
    IF answer.err THEN "resolve"
    ELSE IF \E ip \in answer.ips : isPrivateIP(ip) THEN "private"
    ELSE "none"

\* the URLs given: the empty string, one url.Parse rejects, and those it
\* parses into a scheme and a host name
HostNames ==
    Seqs({"github", ".", "com", "evil"}, 0, MaxHostLen) \union
    { <<"GitHub", ".", "com">>,
      <<"api", ".", "github", ".", "com">>,
      <<"evil", "githubusercontent", ".", "com">>,
      <<"raw", ".", "githubusercontent", ".", "com">>,
      <<"github", ".", "io">>,
      <<"evil", "github", ".", "io">> }

URLSchemes == {"http", "https", "ftp", ""}

URLs ==
    { [form |-> "empty", scheme |-> "", host |-> <<>>],
      [form |-> "invalid", scheme |-> "", host |-> <<>>] } \union
    { [form |-> "ok", scheme |-> sch, host |-> h] : sch \in URLSchemes, h \in HostNames }

\* the addresses a resolver may give
Addrs ==
    { IPv4(140, 82, 112, 3), IPv4(10, 0, 0, 1), IPv4(172, 31, 255, 255),
      IPv4(172, 32, 0, 1), IPv4(192, 168, 1, 1), IPv4(127, 0, 0, 1),
      IPv4(169, 254, 169, 254), IPv6(0, 0, 1), IPv6(254, 128, 1), IPv6(253, 0, 1),
      IPv6(38, 6, 1) }

Answers ==
    { [err |-> TRUE, ips |-> {}] } \union
    { [err |-> FALSE, ips |-> S] : S \in {T \in SUBSET Addrs : Cardinality(T) <= MaxAddrs} }

NoLookup == [err |-> TRUE, ips |-> {}]
NoCheck == [pc |-> "idle", url |-> [form |-> "empty", scheme |-> "", host |-> <<>>],
            answer |-> NoLookup, err |-> "none", fn |-> "none", path |-> <<>>]

\* ValidateGitHubURL is called and runs up to net.LookupIP
ValidateURL(u) ==
    /\ sec.pc = "idle"
    /\ sec' = [NoCheck EXCEPT !.url = u, !.err = BeforeResolve(u),
                              !.pc = IF BeforeResolve(u) = "lookup" THEN "lookup"
                                     ELSE "returned"]
    /\ UNCHANGED <<now, limiterVars, cfg, mem, lru, disk, store, req, resp, hist, ssh, client, authc>>

\* net.LookupIP answers and ValidateGitHubURL returns
LookupIP(answer) ==
    /\ sec.pc = "lookup"
    /\ sec' = [sec EXCEPT !.answer = answer, !.err = AfterResolve(answer),
                          !.pc = "returned"]
    /\ UNCHANGED <<now, limiterVars, cfg, mem, lru, disk, store, req, resp, hist, ssh, client, authc>>

\* the caller has the result
ValidateDone ==
    /\ sec.pc = "returned"
    /\ sec' = NoCheck
    /\ UNCHANGED <<now, limiterVars, cfg, mem, lru, disk, store, req, resp, hist, ssh, client, authc>>

(***************************************************************************)
(* package security: ValidatePath.  A path is the sequence of its          *)
(* characters; "NUL" stands for the zero byte.                             *)
(***************************************************************************)
\* strings.Contains
StrContains(s, sub) ==
    \E i \in 0..(Len(s) - Len(sub)) : SubSeq(s, i + 1, i + Len(sub)) = sub

\* strings.HasPrefix
HasPrefix(s, prefix) == Len(s) >= Len(prefix) /\ SubSeq(s, 1, Len(prefix)) = prefix

\* filepath.Clean, the elements: empty and "." elements are dropped, ".."
\* takes back the element before it, is dropped at the root, and is kept
\* at the start of a path that is not rooted
RECURSIVE CleanElements(_, _, _)
CleanElements(elems, out, rooted) ==
    IF elems = <<>> THEN out
    ELSE LET e == Head(elems)
             rest == Tail(elems)
         IN  IF e = <<>> \/ e = <<".">> THEN CleanElements(rest, out, rooted)
             ELSE IF e = <<".", ".">>
                  THEN IF out # <<>> /\ out[Len(out)] # <<".", ".">>
                       THEN CleanElements(rest, SubSeq(out, 1, Len(out) - 1), rooted)
                       ELSE IF rooted THEN CleanElements(rest, out, rooted)
                       ELSE CleanElements(rest, Append(out, e), rooted)
             ELSE CleanElements(rest, Append(out, e), rooted)

\* strings.Join(elems, "/")
RECURSIVE JoinSlash(_)
JoinSlash(elems) ==
    IF elems = <<>> THEN <<>>
    ELSE IF Len(elems) = 1 THEN elems[1]
    ELSE elems[1] \o <<"/">> \o JoinSlash(Tail(elems))

\* filepath.Clean
Clean(path) ==
    IF path = <<>> THEN <<".">>
    ELSE LET rooted == path[1] = "/"
             out == JoinSlash(CleanElements(Split(path, "/"), <<>>, rooted))
         IN  IF rooted THEN <<"/">> \o out
             ELSE IF out = <<>> THEN <<".">>
             ELSE out

\* filepath.IsAbs
IsAbs(path) == HasPrefix(path, <<"/">>)

dangerousPatterns ==
    { <<".", ".", "/">>, <<".", ".", "\\">>, <<"/", ".", ".">>, <<"\\", ".", ".">> }

\* the error ValidatePath returns, "none" for nil
ValidatePath(path) ==
    IF path = <<>> THEN "empty"
    ELSE IF StrContains(Clean(path), <<".", ".">>) THEN "traversal"
    ELSE IF IsAbs(Clean(path)) THEN "absolute"
    ELSE IF StrContains(path, <<"NUL">>) THEN "null"
    ELSE IF \E pattern \in dangerousPatterns : StrContains(ToLower(path), pattern)
         THEN "pattern"
    ELSE IF HasPrefix(Clean(path), <<".", ".">>) THEN "traversal"
    ELSE "none"

\* the paths given
Paths == Seqs({"a", ".", "/", "\\", "NUL"}, 0, MaxPathLen)

\* one call of ValidatePath
ValidatePathCall(path) ==
    /\ sec.pc = "idle"
    /\ sec' = [NoCheck EXCEPT !.fn = "path", !.path = path, !.err = ValidatePath(path),
                              !.pc = "returned"]
    /\ UNCHANGED <<now, limiterVars, cfg, mem, lru, disk, store, req, resp, hist, ssh, client, authc>>

(***************************************************************************)
(* proxy.ProxyClient: http.Client.Do with the CheckRedirect of             *)
(* NewProxyClient.  `needs` is the number of redirects the origin answers  *)
(* with before the final response, `via` the requests sent so far.         *)
(***************************************************************************)
MaxRedirects == 10

NoSend == [pc |-> "idle", needs |-> 0, via |-> 0, err |-> FALSE]

\* CheckRedirect: TRUE when the redirect is refused
CheckRedirect(via) == via >= MaxRedirects

\* ProxyClient.Do: the request is handed to http.Client.Do
ClientDo(needs) ==
    /\ client.pc = "idle"
    /\ client' = [NoSend EXCEPT !.pc = "send", !.needs = needs]
    /\ UNCHANGED <<now, limiterVars, cfg, mem, lru, disk, store, req, resp, hist, ssh, sec, authc>>

\* http.Client.Do: the request is appended to via and sent; a final response
\* is returned, a redirect is put to CheckRedirect and followed or refused
ClientSend ==
    /\ client.pc = "send"
    /\ client' = IF client.via >= client.needs
                 THEN [client EXCEPT !.via = @ + 1, !.pc = "returned"]
                 ELSE IF CheckRedirect(client.via + 1)
                      THEN [client EXCEPT !.via = @ + 1, !.pc = "returned", !.err = TRUE]
                      ELSE [client EXCEPT !.via = @ + 1]
    /\ UNCHANGED <<now, limiterVars, cfg, mem, lru, disk, store, req, resp, hist, ssh, sec, authc>>

\* the caller has the response or the error
ClientDone ==
    /\ client.pc = "returned"
    /\ client' = NoSend
    /\ UNCHANGED <<now, limiterVars, cfg, mem, lru, disk, store, req, resp, hist, ssh, sec, authc>>

(***************************************************************************)
(* middleware.Recovery, the first handler of the chain                     *)
(***************************************************************************)
\* the values a handler may panic with
PanicValues == {"nil pointer dereference", "index out of range"}

\* Recovery, mutated: the panic is recovered and logged, nothing is written
RecoveryNoAbort(o, value, wrote) ==
    [Finalize(o) EXCEPT !.panic = value, !.wrote = wrote]

\* Recovery's deferred function: c.AbortWithStatusJSON(500, {"error",
\* "message": the panic value}).  When the handler has written the header,
\* gin keeps the status that was written and the JSON follows the bytes
\* already sent.
Recovery(o, value, wrote) ==
    IF wrote
    THEN [o EXCEPT !.panic = value, !.wrote = TRUE, !.json = TRUE, !.complete = FALSE]
    ELSE [JSONReply(o, 500) EXCEPT !.panic = value, !.body = value]

\* the handler the request is at panics; a content handler may have set the
\* status and begun to stream before
Panics(value, wrote, status) ==
    /\ req.state = "running"
    /\ wrote => Chain[req.idx] = "route"
    /\ resp' = Recovery([resp EXCEPT !.ran = Append(@, Chain[req.idx]),
                                     !.status = IF wrote THEN status ELSE @],
                        value, wrote)
    /\ req' = [req EXCEPT !.state = "done"]
    /\ UNCHANGED <<authc, client, sec, ssh, now, rl, limiters, heap, proc, allowLog, cfg, mem, lru, disk,
                   store, hist>>

(***************************************************************************)
(* auth.Cache under concurrent callers: Cache.Get takes the read lock to   *)
(* look the token up, releases it, and takes the write lock to delete an   *)
(* expired one; Set, Delete, Clear and Cleanup each hold the write lock    *)
(* for all they do                                                         *)
(***************************************************************************)
Getters == {1, 2}

AuthKeys == {makeKey(<<"u">>, <<"t">>), makeKey(<<"v">>, <<"t">>)}

IdleGetter == [pc |-> "idle", key |-> <<>>, token |-> NoToken]

NoCallers == [get |-> [g \in Getters |-> IdleGetter], last |-> "none"]

\* Cache.Get, under the read lock: token, exists := c.store[key]; a miss and
\* a valid token are returned, an expired token is kept for the delete
CacheGetRead(g, key) ==
    /\ authc.get[g].pc = "idle"
    /\ authc' = [authc EXCEPT
                   !.get[g] = IF key \in DOMAIN store /\ IsExpired(store[key], now)
                              THEN [pc |-> "delete", key |-> key, token |-> store[key]]
                              ELSE IdleGetter,
                   !.last = "Get"]
    /\ UNCHANGED <<now, limiterVars, cfg, mem, lru, disk, store, req, resp, hist, ssh, sec,
                   client>>

\* Cache.Get, under the write lock: delete(c.store, key), and nil is returned
CacheGetDelete(g) ==
    /\ authc.get[g].pc = "delete"
    /\ store' = Without(store, authc.get[g].key)
    /\ authc' = [authc EXCEPT !.get[g] = IdleGetter, !.last = "Get"]
    /\ UNCHANGED <<now, limiterVars, cfg, mem, lru, disk, req, resp, hist, ssh, sec, client>>

\* Cache.Set with a token validated now that expires after ttl
CacheSet(key, ttl) ==
    /\ store' = AuthCacheSet(store, key, [Value |-> key, ValidatedAt |-> now,
                                          ExpiresAt |-> now + NewCache(ttl)])
    /\ authc' = [authc EXCEPT !.last = "Set"]
    /\ UNCHANGED <<now, limiterVars, cfg, mem, lru, disk, req, resp, hist, ssh, sec, client>>

\* Cache.Delete
CacheDelete(key) ==
    /\ store' = Without(store, key)
    /\ authc' = [authc EXCEPT !.last = "Delete"]
    /\ UNCHANGED <<now, limiterVars, cfg, mem, lru, disk, req, resp, hist, ssh, sec, client>>

\* Cache.Clear: c.store = make(map[string]*Token)
CacheClear ==
    /\ store' = <<>>
    /\ authc' = [authc EXCEPT !.last = "Clear"]
    /\ UNCHANGED <<now, limiterVars, cfg, mem, lru, disk, req, resp, hist, ssh, sec, client>>

\* Cache.Cleanup: under the write lock, every token that has expired is
\* deleted
CacheCleanup ==
    /\ store' = [k \in {x \in DOMAIN store : ~IsExpired(store[x], now)} |-> store[k]]
    /\ authc' = [authc EXCEPT !.last = "Cleanup"]
    /\ UNCHANGED <<now, limiterVars, cfg, mem, lru, disk, req, resp, hist, ssh, sec, client>>

\* time passes for the callers of the cache
CacheClock ==
    /\ now + HalfHour <= MaxHalfHours * HalfHour
    /\ now' = now + HalfHour
    /\ authc' = [authc EXCEPT !.last = "none"]
    /\ UNCHANGED <<limiterVars, cfg, mem, lru, disk, store, req, resp, hist, ssh, sec, client>>

vars == <<now, rl, limiters, heap, proc, allowLog, cfg, mem, lru, disk, store,
          req, resp, hist, ssh, sec, client, authc>>


InitLimiter ==
    /\ now = 0
    /\ rl = [rate |-> Rate, burst |-> Burst,
             sets |-> <<[rate |-> Rate, burst |-> Burst]>>, got |-> NoGot,
             sweep |-> NoSweep]
    /\ limiters = [ip \in IPs |-> NoEntry]
    /\ heap = <<>>
    /\ proc = [p \in Procs |-> IdleProc]
    /\ allowLog = [ip \in IPs |-> <<>>]

InitServer ==
    /\ InitLimiter
    /\ mem = <<>>
    /\ lru = <<>>
    /\ disk = <<>>
    /\ store = <<>>
    /\ req = [state |-> "idle", idx |-> 0, in |-> NoRequest]
    /\ resp = NoOutcome
    /\ hist = [k \in RawKeys |-> NoHist]
    /\ ssh = NoSSH
    /\ sec = NoCheck
    /\ client = NoSend
    /\ authc = NoCallers

\* the limiter on its own: nothing else of the server runs
InitLimiterOnly ==
    /\ InitServer
    /\ cfg = [rateLimit |-> TRUE, auth |-> FALSE, allowAnonymous |-> TRUE,
              authTTL |-> AuthTTL, basePath |-> Empty]

NextLimiter ==
    \/ \E p \in Procs, ip \in IPs : AllowBegin(p, ip)
    \/ \E p \in Procs : GetLimiterLoad(p)
    \/ \E p \in Procs : GetLimiterNew(p)
    \/ \E p \in Procs : GetLimiterLoadOrStore(p)
    \/ \E p \in Procs : GetLimiterTouch(p)
    \/ \E p \in Procs : AllowTake(p)
    \/ Tick

SpecLimiter == InitLimiterOnly /\ [][NextLimiter]_vars

\* the limiter with its parameters being set and read while requests run
NextRate ==
    \/ \E p \in Procs, ip \in IPs : TotalCalls + InFlight < MaxRateCalls /\ AllowBegin(p, ip)
    \/ \E p \in Procs : GetLimiterLoad(p)
    \/ \E p \in Procs : GetLimiterReadRate(p)
    \/ \E p \in Procs : GetLimiterReadBurst(p)
    \/ \E p \in Procs : GetLimiterLoadOrStore(p)
    \/ \E p \in Procs : GetLimiterTouch(p)
    \/ \E p \in Procs : AllowTake(p)
    \/ \E r \in Rates : SetRate(r)
    \/ \E b \in Bursts : SetBurst(b)
    \/ GetRate
    \/ GetBurst

SpecRate == InitLimiterOnly /\ [][NextRate]_vars

\* the goroutines that call Allow while cleanup runs
SweepProcs == {1}

\* the limiter with its cleanup goroutine running beside the requests
NextSweep ==
    \/ \E p \in SweepProcs, ip \in IPs : TotalCalls + InFlight < MaxRateCalls /\ AllowBegin(p, ip)
    \/ \E p \in SweepProcs : GetLimiterLoad(p)
    \/ \E p \in SweepProcs : GetLimiterNew(p)
    \/ \E p \in SweepProcs : GetLimiterLoadOrStore(p)
    \/ \E p \in SweepProcs : GetLimiterTouch(p)
    \/ \E p \in SweepProcs : AllowTake(p)
    \/ CleanupBegin
    \/ \E ip \in IPs : CleanupVisit(ip)
    \/ CleanupDelete
    \/ CleanupEnd
    \/ \E d \in {1, idleTimeout} : TimePasses(d)

SpecSweep == InitLimiterOnly /\ [][NextSweep]_vars

\* the content handlers behind an empty chain: rate limiting and auth are
\* switched off in the configuration
InitContent ==
    /\ InitServer
    /\ cfg = [rateLimit |-> FALSE, auth |-> FALSE, allowAnonymous |-> TRUE,
              authTTL |-> AuthTTL, basePath |-> Empty]

NextContent ==
    \/ \E r \in ContentRequests : Arrive(r)
    \/ RawRoute
    \/ GistRoute
    \/ ArchiveRoute
    \/ APIRoute
    \/ InfoRefsRoute
    \/ UploadPackRoute
    \/ FullURLRoute
    \/ Done

SpecContent == InitContent /\ [][NextContent]_vars

\* two cached resources over time: entries are installed, hit, pushed out,
\* expire and are swept
CacheRequests ==
    RawRequests \cup
    {Request("gist", "GET", <<"", "gist", "octocat", "abc123", "raw", "f.txt">>, "")}

NextCache ==
    \/ \E r \in CacheRequests : Arrive(r)
    \/ RawRoute
    \/ GistRoute
    \/ AdvanceHalfHour
    \/ Sweep
    \/ Done

SpecCache == InitContent /\ [][NextCache]_vars

\* the whole chain in front of the archive route, under every configuration
\* of the two optional middlewares
Credentials ==
    {NoAuthz,
     Authz("Basic", "ok", <<"u">>, <<"t">>),
     Authz("Basic", "ok", <<"u">>, <<>>),
     Authz("Basic", "nocolon", <<>>, <<>>),
     Authz("Basic", "badbase64", <<>>, <<>>),
     Authz("Bearer", "ok", <<>>, <<"t">>),
     Authz("Digest", "ok", <<>>, <<>>)}

ChainRequests ==
    {[Request("archive", "GET",
              <<"", "octocat", "Hello-World", "archive", "main.zip">>, "")
         EXCEPT !.authz = a] : a \in Credentials}

InitChain ==
    /\ InitServer
    /\ cfg \in [rateLimit : BOOLEAN, auth : BOOLEAN, allowAnonymous : BOOLEAN,
               authTTL : {AuthTTL}, basePath : {Empty}]

NextChain ==
    \/ \E r \in ChainRequests : Arrive(r)
    \/ RateLimitMW
    \/ AuthMW
    \/ ArchiveRoute
    \/ AdvanceHalfHour
    \/ Done

SpecChain == InitChain /\ [][NextChain]_vars

\* the chain in front of the archive route, with handlers that may panic
NextPanic ==
    \/ \E r \in ChainRequests : Arrive(r)
    \/ RateLimitMW
    \/ AuthMW
    \/ ArchiveRoute
    \/ \E value \in PanicValues, wrote \in BOOLEAN, status \in {200, 206} :
          Panics(value, wrote, status)
    \/ Done

SpecPanic == InitChain /\ [][NextPanic]_vars

\* the two dispatchers side by side on the same owner, repo and rest of the
\* path, in front of an empty cache and an upstream that answers 200
Owners == {"octocat", "torvalds"}
Repos == {"Hello-World", "linux"}
Segments == {"refs", "heads", "tags", "main", "F"}

Dispatch(owner, repo, rest) ==
    LET u == Answer(200, "b1", SmallSize, TRUE, "none")
        pathStyle == <<"", owner, repo, "raw">> \o rest
        p == RouteParams("raw", pathStyle)
        full(kind) == FullURL("https:", "github.com", <<owner, repo, kind>> \o rest)
        byURL(kind) == CatchAll(NoOutcome, "GET", full(kind), full(kind), "", u, FALSE)
    IN  /\ req.state = "idle"
        /\ resp = NoOutcome
        /\ resp' = [handler |-> "dispatch", owner |-> owner, repo |-> repo,
                    rest |-> rest,
                    info |-> parseGitHubURL(TrimLeadingSlash(full("raw"))),
                    byPath |-> RawHandle(NoOutcome, p.Owner, p.Repo, p.Ref,
                                         p.Filepath, u, FALSE),
                    byRaw |-> byURL("raw"),
                    byBlob |-> byURL("blob"),
                    byTree |-> byURL("tree")]
        /\ UNCHANGED <<authc, client, sec, ssh, now, rl, limiters, heap, proc, allowLog, cfg, mem, lru, disk,
                       store, req, hist>>

\* the two responses have left
DispatchDone ==
    /\ resp.handler = "dispatch"
    /\ resp' = NoOutcome
    /\ UNCHANGED <<authc, client, sec, ssh, now, rl, limiters, heap, proc, allowLog, cfg, mem, lru, disk,
                   store, req, hist>>

NextDispatch ==
    \/ \E owner \in Owners, repo \in Repos, rest \in Seqs(Segments, 2, MaxRest) :
          Dispatch(owner, repo, rest)
    \/ DispatchDone

SpecDispatch == InitContent /\ [][NextDispatch]_vars

\* the router under a base path: path-style, full-URL and health requests
\* at the root and under /ghproxy, with the credential gate open or shut
BasePaths == {Empty, <<"", "ghproxy">>}

RouterPaths ==
    {b \o Tail(p) :
        b \in BasePaths,
        p \in {ReadmePath,
               FullURL("https:", "github.com", Tail(ReadmePath)),
               <<"", "github.com", "octocat", "raw", "main", "x">>,
               <<"", "octocat", "Hello-World", "archive", "main.zip">>,
               <<"", "health">>}}

InitRouter ==
    /\ InitServer
    /\ cfg \in [rateLimit : {FALSE}, auth : BOOLEAN, allowAnonymous : {FALSE},
                authTTL : {AuthTTL}, basePath : BasePaths]

NextRouter ==
    \/ \E path \in RouterPaths, route \in Routes \cup {"notfound"} :
          /\ Resolves(route, "GET", path)
          /\ Arrive(Request(route, "GET", path, ""))
    \/ AuthMW
    \/ RawRoute
    \/ ArchiveRoute
    \/ FullURLRoute
    \/ HealthRoute
    \/ NoRoute
    \/ Done

SpecRouter == InitRouter /\ [][NextRouter]_vars

\* one session channel of the tunnel and its bridge to the origin
Directions == {"c2o", "o2c"}

\* the steps of handleGitPassthrough once the bridge is up
BridgeSteps ==
    \/ \E d \in Directions : CopyEnds(d)
    \/ \E d \in Directions : CopyCloses(d)
    \/ BridgeReturns

NextBridge ==
    \/ \E r \in SessionRequests : ClientSends(r)
    \/ ClientCloses
    \/ ClientEOF
    \/ OriginEOF
    \/ \E connected \in BOOLEAN : HandleRequest(connected)
    \/ HandleReturns
    \/ \E d \in Directions : CopyFails(d)
    \/ BridgeSteps

SpecBridge == InitContent /\ [][NextBridge]_vars

\* the same, where the goroutines of the bridge run whenever they can; the
\* peers may keep their streams open for ever
SpecBridgeFair == SpecBridge /\ WF_vars(BridgeSteps)

\* the exec parser on its own, on one payload at a time
NextExec ==
    \/ \E payload \in ExecNames : Exec(payload)
    \/ \E payload \in ExecForms : Exec(payload)
    \/ ExecDone

SpecExec == InitContent /\ [][NextExec]_vars

\* security.ValidateGitHubURL on its own
NextValidate ==
    \/ \E u \in URLs : ValidateURL(u)
    \/ \E answer \in Answers : LookupIP(answer)
    \/ ValidateDone

SpecValidate == InitContent /\ [][NextValidate]_vars

\* security.ValidatePath on its own
NextPath ==
    \/ \E path \in Paths : ValidatePathCall(path)
    \/ ValidateDone

SpecPath == InitContent /\ [][NextPath]_vars

\* the outbound client on its own
NextClient ==
    \/ \E needs \in 0..MaxChain : ClientDo(needs)
    \/ ClientSend
    \/ ClientDone

SpecClient == InitContent /\ [][NextClient]_vars

\* the API route on its own, for GET requests of every sub-path family
APIFamilies == {"commits", "releases", "repos", "issues", "zen"}

APIRequests ==
    {Request("api", "GET", <<"", "api">> \o p, "") :
        p \in Seqs(APIFamilies, 1, MaxAPISegs) \union
              {<<"users", "octocat">>, <<"pulls">>,
               <<"repos", "octocat", "Hello-World", "commits", "abc123">>}}

NextAPI ==
    \/ \E r \in APIRequests : Arrive(r)
    \/ APIRoute
    \/ Done

SpecAPI == InitContent /\ [][NextAPI]_vars

\* the SSH server from Start to the end of main
ServerSteps ==
    \/ StopCalled
    \/ AcceptLoopReturns
    \/ StopReturns
    \/ ShutdownDone
    \/ ShutdownTimeout

NextStop ==
    \/ Start
    \/ \E c \in Conns : Accept(c)
    \/ \E c \in Conns : NewChannel(c)
    \/ \E c \in Conns : ChannelEnds(c)
    \/ \E c \in Conns : ConnEnds(c)
    \/ Signal
    \/ ServerSteps

SpecStop == InitContent /\ [][NextStop]_vars

\* the server's own steps are taken when they can be; a client ends its
\* channels and connections when it chooses, or never
SpecStopFair == SpecStop /\ WF_vars(ServerSteps)

\* auth.Cache on its own, created with any ttl
CacheTTLs == {0, HalfHour, 60 * Minute}

Pairs == {<<(<<"u">>), (<<"t">>)>>, <<(<<>>), (<<"t">>)>>, <<(<<"u">>), (<<>>)>>}

InitAuthCache ==
    /\ InitServer
    /\ cfg \in [rateLimit : {FALSE}, auth : {TRUE}, allowAnonymous : {FALSE},
                authTTL : CacheTTLs, basePath : {Empty}]

NextAuthCache ==
    \/ \E c \in Pairs : CacheGetOrValidate(c[1], c[2])
    \/ AuthCleanup
    \/ AdvanceHalfHour

SpecAuthCache == InitAuthCache /\ [][NextAuthCache]_vars

(***************************************************************************)
(* Claims about the rate limiter, checked under SpecLimiter                *)
(***************************************************************************)
\* the first n calls logged for ip all ran at the instant of the first one
Immediate(ip, n) ==
    /\ Len(allowLog[ip]) >= n
    /\ \A i \in 1..n : allowLog[ip][i].t = allowLog[ip][1].t

\* at least 1/Rate second lies between call i and call j of ip
WaitedOneToken(ip, i, j) ==
    (allowLog[ip][j].t - allowLog[ip][i].t) * Rate >= TicksPerSec

\* C7: for each IP, whatever the calls for other IPs: the first Burst
\* immediately consecutive Allow(ip) calls on a newly seen IP return true, the
\* next immediate call returns false, and one call made at least 1/Rate second
\* later returns true.
C7_BurstThenDenyThenRefill ==
    \A ip \in IPs :
        /\ \A n \in 1..Burst : Immediate(ip, n) => allowLog[ip][n].ok
        /\ Immediate(ip, Burst + 1) => ~allowLog[ip][Burst + 1].ok
        /\ (Immediate(ip, Burst + 1) /\ Len(allowLog[ip]) >= Burst + 2
                /\ WaitedOneToken(ip, Burst + 1, Burst + 2))
             => allowLog[ip][Burst + 2].ok

\* Burst admitted, one denied, one admitted after the wait, with calls for the
\* other IP in between
C7_Witness ==
    \E ip \in IPs :
        /\ Immediate(ip, Burst + 1)
        /\ Len(allowLog[ip]) >= Burst + 2
        /\ WaitedOneToken(ip, Burst + 1, Burst + 2)
        /\ allowLog[ip][Burst + 2].ok
        /\ \E other \in IPs \ {ip} : Len(allowLog[other]) >= 1

\* the calls of ip admitted at tick t
AdmittedAt(ip, t) ==
    {i \in 1..Len(allowLog[ip]) : allowLog[ip][i].t = t /\ allowLog[ip][i].ok}

RawServed ==
    /\ req.state = "running"
    /\ req.in.route = "raw"
    /\ req'.state = "done"
    /\ resp'.key = ReadmeKey

\* C1 as stated: when the previous GET of the path met an upstream 200 and the
\* entry was neither evicted nor expired since, that GET was a MISS and this
\* one is served HIT-MEMORY with the same bytes and without an outbound request
C1_AnyUpstream200 ==
    [][(RawServed /\ hist[ReadmeKey].seen /\ hist[ReadmeKey].up.status = 200
          /\ hist[ReadmeKey].undisturbed)
       => (/\ hist[ReadmeKey].xcache = "MISS"
           /\ resp'.xcache = "HIT-MEMORY"
           /\ resp'.body = hist[ReadmeKey].body
           /\ resp'.fetched = <<>>)]_vars

\* C1, amended: when the previous GET of the path met an upstream 200 that
\* declared a Content-Length above 0 and below 100 MiB and the body was copied
\* to the client in full, and the entry was neither evicted nor expired since,
\* that GET was a MISS and this one is served HIT-MEMORY with the same bytes
\* and without an outbound request
C1_SecondGetHitsMemory ==
    [][(RawServed /\ hist[ReadmeKey].seen /\ hist[ReadmeKey].up.status = 200
          /\ hist[ReadmeKey].cacheable /\ hist[ReadmeKey].complete
          /\ hist[ReadmeKey].undisturbed)
       => (/\ hist[ReadmeKey].xcache = "MISS"
           /\ resp'.xcache = "HIT-MEMORY"
           /\ resp'.status = 200
           /\ resp'.body = hist[ReadmeKey].body
           /\ resp'.fetched = <<>>)]_vars

C1_Witness ==
    /\ req.state = "done"
    /\ resp.handler = "raw"
    /\ resp.xcache = "HIT-MEMORY"
    /\ resp.fetched = <<>>
    /\ hist[ReadmeKey].before = "MISS"

ContentHandlers == {"raw", "archive", "gist", "git", "api"}

\* C2: every 2xx response of a content handler (raw, archive, gist, git, API)
\* carries X-Cache with one of HIT-MEMORY, HIT-DISK, MISS
C2_XCacheOnSuccess ==
    (/\ req.state = "done"
     /\ resp.handler \in ContentHandlers
     /\ resp.status >= 200 /\ resp.status <= 299)
    => resp.xcache \in {"HIT-MEMORY", "HIT-DISK", "MISS"}

\* a handler hands over a response
Served == req.state = "running" /\ req'.state = "done"

\* C3: when upstream answers outside 2xx, the client receives that status and
\* that body, and neither cache tier changes
C3_NonSuccessPassesThrough ==
    [][(Served /\ resp'.up.status # 0
          /\ ~(resp'.up.status >= 200 /\ resp'.up.status <= 299))
       => (/\ resp'.status = resp'.up.status
           /\ resp'.body = resp'.up.body
           /\ mem' = mem /\ lru' = lru /\ disk' = disk)]_vars

C3_Witness ==
    /\ req.state = "done"
    /\ resp.handler = "api"
    /\ resp.up.status = 404
    /\ resp.status = 404
    /\ resp.body = "b2"
    /\ DOMAIN mem # {}

\* C4: when the copy to the client fails in the middle of a MISS, no entry is
\* installed: both cache tiers are the same before and after the request
C4_FailedCopyInstallsNothing ==
    [][(Served /\ resp'.xcache = "MISS" /\ ~resp'.complete)
       => (mem' = mem /\ lru' = lru /\ disk' = disk)]_vars

C4_Witness ==
    /\ req.state = "done"
    /\ resp.handler = "raw"
    /\ resp.xcache = "MISS"
    /\ ~resp.complete
    /\ resp.up.status = 200
    /\ ReadmeKey \notin DOMAIN mem

\* C5: every outbound fetch was preceded by a successful validation of its
\* destination against the destination policy
C5_FetchAfterValidation ==
    \A i \in DOMAIN resp.fetched : resp.fetched[i] \in resp.validated

RefusedHosts == {"127.0.0.1", "localhost", "evil.example"}

\* C6: a full-URL request whose host is 127.0.0.1, localhost or not on the
\* allow-list is answered 400 or 403 and causes no outbound connection
C6_ForeignHostRefused ==
    (/\ req.state = "done"
     /\ req.in.route = "url"
     /\ urlParse(TrimLeadingSlash(req.in.path)).Host \in RefusedHosts)
    => (resp.status \in {400, 403} /\ resp.fetched = <<>>)

\* C9: a request the limiter denies is answered 429 with a JSON body and
\* nothing later in the chain runs for it: no authentication, no handler, no
\* outbound request
C9_DeniedStopsChain ==
    resp.limited
    => (/\ req.state = "done"
        /\ resp.status = 429
        /\ resp.json
        /\ resp.ran = <<"RateLimit">>
        /\ resp.validations = 0
        /\ resp.verdict = "none"
        /\ resp.handler = "none"
        /\ resp.fetched = <<>>)

C9_Witness ==
    /\ resp.limited
    /\ resp.status = 429
    /\ cfg.auth
    /\ req.in.authz.scheme = "Basic"
    /\ req.in.authz.pass # <<>>

\* the Auth middleware looks a credential pair up
Lookup ==
    /\ req.state = "running"
    /\ Chain[req.idx] = "Auth"
    /\ req.in.authz.scheme \in {"Basic", "Bearer"}
    /\ req.in.authz.form = "ok"
    /\ resp' # resp

LookupKey ==
    (IF req.in.authz.scheme = "Basic" THEN req.in.authz.user ELSE <<>>)
    \o <<":">> \o req.in.authz.pass

\* C10: the lookup returns the cached verdict exactly when one is stored and
\* now is not after its expiry, and then upstream is not contacted; an expired
\* verdict is not returned and the request is validated upstream afresh
C10_CachedVerdictWhileFresh ==
    [][Lookup =>
        LET stored == LookupKey \in DOMAIN store
            fresh == stored /\ now <= store[LookupKey].ExpiresAt
        IN  /\ (resp'.verdict = "cached") <=> fresh
            /\ fresh => (resp'.validations = resp.validations /\ store' = store)
            /\ (stored /\ ~fresh)
                 => (/\ resp'.validations = resp.validations + 1
                     /\ \/ LookupKey \notin DOMAIN store'
                        \/ store'[LookupKey].ExpiresAt = now + AuthTTL)]_vars

C10_Witness ==
    /\ resp.expired
    /\ resp.verdict = "fresh"
    /\ resp.validations = 1
    /\ "route" \in {resp.ran[i] : i \in DOMAIN resp.ran}

\* the store as the lookup of LookupKey leaves it: Cache.Get deletes the
\* token it finds expired
AfterLookup ==
    IF LookupKey \in DOMAIN store /\ now > store[LookupKey].ExpiresAt
    THEN [k \in DOMAIN store \ {LookupKey} |-> store[k]]
    ELSE store

\* C11: only a 200 from upstream validation stores a verdict: after a 401, a
\* 403, any other status or a transport error the auth cache holds what the
\* lookup left in it and nothing for the credential, so that the next lookup
\* of the credential misses; and a lookup that misses contacts upstream
C11_OnlySuccessIsStored ==
    [][Lookup =>
        /\ (resp'.answer # NoAnswer /\ resp'.answer # 200)
             => (store' = AfterLookup /\ LookupKey \notin DOMAIN store')
        /\ (store' # AfterLookup) => resp'.answer = 200
        /\ (LookupKey \notin DOMAIN store /\ req.in.authz.pass # <<>>)
             => (resp'.validations = resp.validations + 1 /\ resp'.answer # NoAnswer)]_vars

C11_Witness ==
    /\ req.state = "done"
    /\ resp.answer = 403
    /\ resp.validations = 1
    /\ resp.expired
    /\ store # <<>>
    /\ makeKey(req.in.authz.user, req.in.authz.pass) \notin DOMAIN store

\* C12: with auth enabled, a credential upstream rejects with 401 is answered
\* 401 and one upstream rejects with 403 is answered 403
C12_RejectionStatus ==
    (req.state = "done" /\ cfg.auth)
    => (/\ resp.answer = 401 => resp.status = 401
        /\ resp.answer = 403 => resp.status = 403)

\* the request went through the auth gate with no verdict, fresh or cached
PassedUnvalidated ==
    /\ "route" \in {resp.ran[i] : i \in DOMAIN resp.ran}
    /\ resp.verdict = "none"

\* C13: a request the limiter admits goes through the auth gate without any
\* validation exactly when auth is disabled, or anonymous access is allowed and
\* the request has no Authorization header; with anonymous access disallowed
\* and no Authorization header it is answered 401 and no content handler runs
C13_GateOpenOnlyForAnonymous ==
    (req.state = "done" /\ ~resp.limited)
    => (/\ PassedUnvalidated
             <=> (~cfg.auth \/ (cfg.allowAnonymous /\ req.in.authz.scheme = "none"))
        /\ (cfg.auth /\ ~cfg.allowAnonymous /\ req.in.authz.scheme = "none")
             => (resp.status = 401 /\ resp.handler = "none" /\ resp.fetched = <<>>))

\* C14: a verdict stored through a cache created by NewCache(ttl) is returned
\* by a lookup while now is at most ttl after its validation time and is not
\* returned after that, with ttl = 1 hour when 0 was passed
C14_VerdictLivesForTTL ==
    [][(resp' # resp /\ resp'.handler = "auth.Cache" /\ resp'.key \in DOMAIN store)
       => ((resp'.verdict = "cached")
             <=> now <= store[resp'.key].ValidatedAt + NewCache(cfg.authTTL))]_vars

Dispatched == resp.handler = "dispatch"

\* C15: the path-style request /<owner>/<repo>/raw/<ref>/<path> and the
\* full-URL request /https://github.com/<owner>/<repo>/raw/<ref>/<path> reach
\* the raw handler with the same cache key, that is the same (owner, repo,
\* ref, filepath), also when <ref> is refs/heads/<br> or refs/tags/<t>
C15_DispatchersAgree ==
    Dispatched
    => (/\ resp.byPath.handler = "raw"
        /\ resp.byRaw.handler = "raw"
        /\ resp.byRaw.key = resp.byPath.key)

\* the upstream URL of <owner>/<repo>/<rest> on the raw-content origin
RawContentURL ==
    [scheme |-> "https", host |-> "raw.githubusercontent.com",
     path |-> <<"", resp.owner, resp.repo>> \o resp.rest, query |-> ""]

\* C16 as stated: for /<owner>/<repo>/{raw|blob|tree}/<rest> on github.com
\* with at least two segments in <rest>, the URL fetched is
\* https://raw.githubusercontent.com/<owner>/<repo>/<rest>, the same for the
\* three forms
C16_AnyTwoSegments ==
    Dispatched
    => (/\ resp.byRaw.fetched = <<RawContentURL>>
        /\ resp.byBlob.fetched = <<RawContentURL>>
        /\ resp.byTree.fetched = <<RawContentURL>>)

\* C16, amended: the same, where <rest> has at least two segments, and at
\* least three when its first segment is refs
C16_SameUpstreamURL ==
    (Dispatched /\ (resp.rest[1] = "refs" => Len(resp.rest) >= 3))
    => (/\ resp.byRaw.fetched = <<RawContentURL>>
        /\ resp.byBlob.fetched = <<RawContentURL>>
        /\ resp.byTree.fetched = <<RawContentURL>>)

C16_Witness ==
    /\ Dispatched
    /\ resp.rest = <<"refs", "heads", "main", "F">>
    /\ resp.info.Ref = <<"refs", "heads">>
    /\ resp.byBlob.fetched = <<RawContentURL>>
    /\ resp.byBlob.status = 200

\* C17: parseGitHubURL on the github.com URL
\* /<owner>/<repo>/raw/refs/<x>/<y>/<rest...> returns Type raw, the owner, the
\* repo, Ref = refs/<x> and Filepath = /<y>/<rest...>
C17_LegacySplit ==
    (Dispatched /\ resp.rest[1] = "refs" /\ Len(resp.rest) >= 3)
    => (/\ ~resp.info.err
        /\ resp.info.Type = "raw"
        /\ resp.info.Owner = resp.owner
        /\ resp.info.Repo = resp.repo
        /\ resp.info.Ref = <<"refs", resp.rest[2]>>
        /\ resp.info.Filepath = <<"">> \o SubSeq(resp.rest, 3, Len(resp.rest)))

C17_Witness ==
    /\ Dispatched
    /\ resp.rest = <<"refs", "heads", "main", "F">>
    /\ resp.info.Ref = <<"refs", "heads">>
    /\ resp.info.Filepath = <<"", "main", "F">>
    /\ resp.info.Type = "raw"

\* C20: every response the server sends carries the six security headers
\* with exactly the values SecurityHeaders sets, whatever headers the upstream
\* response carried
C20_SecurityHeadersKept ==
    req.state = "done"
    => \A h \in DOMAIN SecurityHeaderValues :
          h \in DOMAIN resp.headers /\ resp.headers[h] = SecurityHeaderValues[h]

\* the request was handed to a route and the route's handler has returned
Routed ==
    /\ req.state = "done"
    /\ req.in.method = "GET"
    /\ UnderBase(req.in.path)
    /\ "route" \in {resp.ran[i] : i \in DOMAIN resp.ran}

PathStyle == Routes \ {"url", "health"}

\* C18: a GET whose path after the base path begins with a known origin
\* host, with or without a scheme, is handled by the full-URL handler; every
\* other GET under the base path is handled by the path-style route that fits
\* it, so <base_path>/octocat/Hello-World/raw/master/README reaches the raw
\* handler
C18_FullURLFirstElsePathStyle ==
    Routed
    => IF isGitHubURL(GroupPath(req.in.path))
       THEN req.in.route = "url" /\ resp.handler # "none"
       ELSE /\ \A r \in PathStyle :
                  Matches(r, "GET", req.in.path) => req.in.route = r
            /\ GroupPath(req.in.path) = ReadmePath => resp.handler = "raw"

Healthy == resp.status = 200 /\ resp.handler = "health" /\ resp.json

\* C19: GET /health at the root is answered 200 with the health document
\* whatever the base path is, and with a base path set GET <base_path>/health
\* is answered 200 with it as well
C19_HealthEverywhere ==
    (req.state = "done" /\ req.in.method = "GET")
    => (/\ req.in.path = <<"", "health">> => Healthy
        /\ (cfg.basePath # Empty /\ req.in.path = cfg.basePath \o <<"health">>)
              => Healthy)

\* git-upload-pack '<repo-path>' or git-receive-pack '<repo-path>' and nothing
\* else: two words, the second a repo-path owner/repo, in quotes or bare, that
\* may begin with a slash and end in .git
Unquoted(w) ==
    IF Len(w) >= 2 /\ w[1] \in {"'", "\""} /\ w[Len(w)] = w[1]
    THEN SubSeq(w, 2, Len(w) - 1) ELSE w

ExactForm(p) ==
    LET words == Fields(p)
        inner == Unquoted(words[2])
        path  == TrimSuffixGit(IF inner # <<>> /\ inner[1] = "/" THEN Tail(inner)
                               ELSE inner)
        parts == Split(path, "/")
    IN  /\ Len(words) = 2
        /\ words[1] \in {<<op>> : op \in GitOperations}
        /\ \A i \in DOMAIN path : path[i] \notin {"'", "\""}
        /\ Len(parts) = 2
        /\ parts[1] # <<>> /\ parts[2] # <<>>

\* C24: an exec payload that is not exactly git-upload-pack '<repo-path>' or
\* git-receive-pack '<repo-path>' with one owner/repo argument is refused: an
\* error line is written, exit-status 1 is sent and the origin is not dialled
C24_OnlyExactCommands ==
    (ssh.decided /\ ~ExactForm(ssh.payload))
    => (/\ ~ssh.decision.reply
        /\ ssh.decision.line
        /\ ssh.decision.exit = 1
        /\ ~ssh.decision.dial)

\* C25: a command is forwarded to the origin only if its owner and its repo
\* satisfy the owner and the repo validator
C25_ForwardedNamesAreValid ==
    (ssh.decided /\ ssh.decision.dial)
    => (/\ ValidateOwner(ssh.decision.cmd.Owner)
        /\ ValidateRepo(ssh.decision.cmd.Repo))

Bridging == ssh.pc = "bridge"

\* the half-close of direction d is in place
HalfClosed(t, d) == IF d = "c2o" THEN t.stdin = "closed" ELSE t.clientWrite = "closed"

\* the sides a half-close of direction d must leave alone
OtherSides(t, d) ==
    IF d = "c2o" THEN <<t.stdout, t.clientWrite, t.clientRead, t.o2c>>
    ELSE <<t.stdin, t.stdout, t.clientRead, t.c2o>>

\* C21: in the bridge, once the copy of a direction has ended its destination
\* is half-closed (the origin's stdin for client-to-origin, the client's
\* write side for origin-to-client); the half-close comes only after that
\* copy has ended, and it closes nothing of the opposite direction
C21_HalfCloseAfterCopy ==
    [][\A d \in Directions :
          /\ (Bridging /\ ssh'.pc = "bridge" /\ ~HalfClosed(ssh, d) /\ HalfClosed(ssh', d))
                => (ssh[d] = "ended" /\ OtherSides(ssh', d) = OtherSides(ssh, d))
          /\ (Bridging /\ ssh[d] = "ended" /\ ssh'[d] # "ended")
                => (ssh'[d] = "done" /\ HalfClosed(ssh', d))]_vars

C21_Witness ==
    /\ Bridging
    /\ ssh.c2o = "done" /\ ssh.stdin = "closed"
    /\ ssh.o2c = "copying" /\ ssh.stdout = "open" /\ ssh.clientWrite = "open"
    /\ ssh.broke = {}

\* C22: for an accepted exec command the exit-status sent is 0 exactly when
\* the outbound session was established and neither copy failed, and 1
\* otherwise; where a bridge ran, it is sent after both copies have finished
C22_ExitStatusTellsOutcome ==
    \A i \in DOMAIN ssh.exits :
        LET e == ssh.exits[i]
        IN  e.accepted
            => (/\ e.status \in {0, 1}
                /\ e.status = 0 <=> (e.established /\ e.broke = {})
                /\ e.established => e.finished)

C22_Witness ==
    /\ Len(ssh.exits) = 2
    /\ ssh.exits[1].accepted /\ ssh.exits[1].established
    /\ ssh.exits[1].broke = {"o2c"} /\ ssh.exits[1].status = 1
    /\ ssh.exits[2].accepted /\ ssh.exits[2].established
    /\ ssh.exits[2].broke = {} /\ ssh.exits[2].status = 0

\* C23: when a copy direction of the bridge has failed, the session is torn
\* down and exit-status is sent, whether or not the peer of the other
\* direction ever ends its stream
C23_FailureTearsDown == (Bridging /\ ssh.broke # {}) ~> ~Bridging

\* C26: on one session channel at most one exec opens an outbound session
C26_OneExecPerChannel == ssh.dials <= 1

\* C27: once Stop has closed the listener and waits for the sessions, it
\* returns, also when a client never ends its session
C27_StopReturns == (ssh.stop = "waiting") ~> (ssh.stop = "returned")

\* the values rl.rate and rl.burst have held since goroutine p entered Allow
RatesSince(p) == {rl.sets[v].rate : v \in proc[p].began..Len(rl.sets)}
BurstsSince(p) == {rl.sets[v].burst : v \in proc[p].began..Len(rl.sets)}

\* C28: SetRate and SetBurst leave the rate and burst of every bucket that
\* exists as they are; a bucket that is stored has a rate and a burst that
\* the limiter held while the call that made it ran; GetRate and GetBurst
\* return the value set last
C28_SetAppliesToNewBuckets ==
    [][ /\ \A i \in DOMAIN heap :
              heap'[i].limit = heap[i].limit /\ heap'[i].burst = heap[i].burst
        /\ Len(heap') > Len(heap) =>
              \E p \in Procs :
                 /\ proc[p].pc = "store"
                 /\ proc'[p].via = "stored"
                 /\ heap'[Len(heap')].limit \in RatesSince(p)
                 /\ heap'[Len(heap')].burst \in BurstsSince(p)
        /\ (rl'.got # rl.got /\ rl'.got.what = "rate") =>
              rl'.got.value = rl'.sets[Len(rl'.sets)].rate
        /\ (rl'.got # rl.got /\ rl'.got.what = "burst") =>
              rl'.got.value = rl'.sets[Len(rl'.sets)].burst ]_vars

\* a bucket made before a SetRate still has the old rate, a later bucket has
\* the new one, and GetRate has returned the new one
C28_Witness ==
    /\ Len(rl.sets) > 1
    /\ rl.got = [what |-> "rate", value |-> rl.rate]
    /\ \E i, j \in DOMAIN heap :
          /\ i < j
          /\ heap[i].limit # rl.rate
          /\ heap[j].limit = rl.rate

\* C29: a step of the sweeper removes a bucket only if its last-seen time is
\* more than the idle timeout in the past, changes no bucket, and when the
\* run ends no bucket that was idle for more than the timeout is left
C29_SweepRemovesExactlyIdle ==
    [][ /\ \A ip \in IPs :
              (limiters[ip] # NoEntry /\ limiters'[ip] = NoEntry) =>
                  now - heap[limiters[ip]].lastSeen > idleTimeout
        /\ rl'.sweep # rl.sweep => heap' = heap
        /\ (rl.sweep.pc = "range" /\ rl'.sweep.pc = "idle") =>
              \A ip \in IPs :
                  limiters[ip] # NoEntry =>
                      ~(rl.sweep.at - heap[limiters[ip]].lastSeen > idleTimeout) ]_vars

\* host h, in lower case, is allow-list entry d or ends with d after a dot
EqualsOrSubdomain(h, d) ==
    \/ h = d
    \/ /\ Len(h) > Len(d)
       /\ h[Len(h) - Len(d)] = "."
       /\ \A i \in 1..Len(d) : h[Len(h) - Len(d) + i] = d[i]

OnAllowList(h) == \E d \in allowedGitHubDomains : EqualsOrSubdomain(ToLower(h), d)

\* host h ends with an allow-listed name that does not start at a dot
EndsWithoutBoundary(h) ==
    /\ ~OnAllowList(h)
    /\ \E d \in allowedGitHubDomains :
          /\ Len(h) > Len(d)
          /\ \A i \in 1..Len(d) : ToLower(h)[Len(h) - Len(d) + i] = d[i]

\* the addresses of Addrs that are loopback, link-local or private
InternalAddrs ==
    { IPv4(10, 0, 0, 1), IPv4(172, 31, 255, 255), IPv4(192, 168, 1, 1),
      IPv4(127, 0, 0, 1), IPv4(169, 254, 169, 254), IPv6(0, 0, 1),
      IPv6(254, 128, 1), IPv6(253, 0, 1) }

\* C30: ValidateGitHubURL returns nil only for an http or https URL whose
\* host is on the allow list or a subdomain of an entry, and whose resolved
\* addresses are all public; a host that ends with an allow-listed name
\* without a dot before it is rejected, and so is a host one of whose
\* resolved addresses is loopback, link-local or private
C30_OnlyAllowedPublicURLs ==
    sec.pc = "returned" =>
        /\ sec.err = "none" =>
              /\ sec.url.form = "ok"
              /\ sec.url.scheme \in {"http", "https"}
              /\ OnAllowList(sec.url.host)
              /\ ~sec.answer.err
              /\ sec.answer.ips \intersect InternalAddrs = {}
        /\ (sec.url.form = "ok" /\ EndsWithoutBoundary(sec.url.host)) => sec.err # "none"
        /\ sec.answer.ips \intersect InternalAddrs # {} => sec.err # "none"

\* a subdomain of an allow-list entry that resolves to two public addresses
\* has been accepted
C30_Witness ==
    /\ sec.pc = "returned"
    /\ sec.err = "none"
    /\ sec.url.host \notin allowedGitHubDomains
    /\ Cardinality(sec.answer.ips) = 2

\* C31: ValidatePath rejects every path that contains "..", contains a NUL
\* byte, is absolute, has two slashes in a row, or starts or ends with a slash
C31_RejectsUnsafePaths ==
    (sec.pc = "returned" /\ sec.fn = "path") =>
        LET p == sec.path
        IN  (\/ \E i \in 1..(Len(p) - 1) : p[i] = "." /\ p[i + 1] = "."
             \/ \E i \in DOMAIN p : p[i] = "NUL"
             \/ \E i \in 1..(Len(p) - 1) : p[i] = "/" /\ p[i + 1] = "/"
             \/ (p # <<>> /\ p[1] = "/")
             \/ (p # <<>> /\ p[Len(p)] = "/"))
            => sec.err # "none"

\* C32: the outbound client returns the final response of every chain of at
\* most 10 redirects, and an error only for a chain of more than 10
C32_TenRedirectsFollowed ==
    client.pc = "returned" => (client.err <=> client.needs > 10)

\* whether the API path of the request being served has segment a
UnderFamily(a) == \E i \in 3..Len(req.in.path) : req.in.path[i] = a

\* C33: an API GET response that is installed gets the TTL of the sub-path
\* family of its path: commits 24 hours, releases 1 hour, repos and users
\* 30 minutes, issues and pulls 5 minutes, everything else 15 minutes
C33_TTLByFamily ==
    (req.state = "done" /\ resp.handler = "api" /\ resp.set) =>
        resp.ttl = IF UnderFamily("commits") THEN 24 * 60 * Minute
                   ELSE IF UnderFamily("releases") THEN 60 * Minute
                   ELSE IF UnderFamily("repos") \/ UnderFamily("users") THEN 30 * Minute
                   ELSE IF UnderFamily("issues") \/ UnderFamily("pulls") THEN 5 * Minute
                   ELSE 15 * Minute

\* a request has ended with a panic in one of its handlers
Panicked == req.state = "done" /\ resp.panic # "none"

C35_ArchiveBypassesMemory ==
    [][ (req.state = "running" /\ req'.state = "done" /\ resp'.handler = "archive") =>
            /\ mem' = mem
            /\ lru' = lru
            /\ ~resp'.hit
            /\ (resp'.status = 200 /\ ~resp'.json) => resp'.xcache \in {"HIT-DISK", "MISS"} ]_vars

\* an archive has been streamed from upstream while the memory tier held an
\* entry
C35_Witness ==
    /\ req.state = "done"
    /\ resp.handler = "archive"
    /\ resp.xcache = "MISS"
    /\ resp.status = 200
    /\ DOMAIN mem # {}

(***************************************************************************)
(* Specification: the callers of one auth.Cache                            *)
(***************************************************************************)
NextAuthRace ==
    \/ \E g \in Getters, k \in AuthKeys : CacheGetRead(g, k)
    \/ \E g \in Getters : CacheGetDelete(g)
    \/ \E k \in AuthKeys, ttl \in CacheTTLs : CacheSet(k, ttl)
    \/ \E k \in AuthKeys : CacheDelete(k)
    \/ CacheClear
    \/ CacheCleanup
    \/ CacheClock

SpecAuthRace == InitContent /\ [][NextAuthRace]_vars

\* C36: a token that has not expired stays in the store, or is replaced by
\* one that has not expired, in every step but those of Delete and Clear;
\* in particular the delete of a Get that read an expired token leaves a
\* token stored since then in place
C36_FreshTokenSurvives ==
    [][ \A k \in DOMAIN store :
            (~IsExpired(store[k], now') /\ authc'.last \notin {"Delete", "Clear"}) =>
                k \in DOMAIN store' /\ ~IsExpired(store'[k], now') ]_vars

\* the calls of log from the i-th on that the bucket e admits when it is
\* never evicted
RECURSIVE UnevictedAdmits(_, _, _)
UnevictedAdmits(log, i, e) ==
    IF i > Len(log) THEN 0
    ELSE (IF LimiterAllows(e, log[i].t) THEN 1 ELSE 0)
         + UnevictedAdmits(log, i + 1, LimiterTake(e, log[i].t))

Admitted(log) == Cardinality({i \in DOMAIN log : log[i].ok})

\* C37: for every IP, the calls admitted are no more than one bucket of rate
\* Rate and burst Burst that is never evicted admits for the same calls, and
\* no two buckets admit calls of the IP at the same instant
C37_EvictionTransparent ==
    \A ip \in IPs :
        LET log == allowLog[ip]
        IN  /\ log # <<>> =>
                  Admitted(log) <= UnevictedAdmits(log, 1, newLimiterEntry(Rate, Burst, log[1].t))
            /\ \A i, j \in DOMAIN log :
                  (log[i].ok /\ log[j].ok /\ log[i].t = log[j].t) =>
                      log[i].bucket = log[j].bucket

(***************************************************************************)
(* Specification: requests with forwarding headers through RealIP and      *)
(* RateLimit                                                               *)
(***************************************************************************)
RemoteAddrs == {<<ip, ":", "port">> : ip \in IPs}

IPHeaders ==
    [xRealIP : {<<>>, <<"ip2">>, <<"unknown">>},
     xForwardedFor : {<<>>, <<"ip2", ",", " ", "ip1">>},
     cfConnectingIP : {<<>>, <<" ", "ip1">>},
     trueClientIP : {<<>>, <<"[", "ip2", "]", ":", "port">>}]

RealIPRequests ==
    {[Request("archive", "GET", <<"", "octocat", "Hello-World", "archive", "main.zip">>, "")
         EXCEPT !.remoteAddr = a, !.headers = h] : a \in RemoteAddrs, h \in IPHeaders}

NextRealIP ==
    \/ \E r \in RealIPRequests : Arrive(r)
    \/ RateLimitMW
    \/ ArchiveRoute
    \/ Tick
    \/ Done

SpecRealIP == InitLimiterOnly /\ [][NextRealIP]_vars

\* the address of the connection the request came on
ConnAddr(r) == r.remoteAddr[1]

\* C38: a step of RateLimit charges the bucket that the map holds for the
\* remote address of the connection and no other, whatever X-Real-IP,
\* X-Forwarded-For, CF-Connecting-IP or True-Client-IP the request carries
C38_BucketByRemoteAddr ==
    [][ heap' # heap =>
            LET b == limiters'[ConnAddr(req.in)]
            IN  /\ b # NoEntry
                /\ \A i \in DOMAIN heap' :
                      i # b => (i \in DOMAIN heap /\ heap'[i] = heap[i]) ]_vars

(***************************************************************************)
(* Specification: full GitHub URLs of every kind through GET /*url         *)
(***************************************************************************)
URLHosts == {"github.com", "raw.githubusercontent.com", "gist.githubusercontent.com",
             "api.github.com"}

URLWords == {"octocat", "Hello-World.git", "info"}

URLRequests ==
    {Request("url", "GET", FullURL("https:", h, rest), "git-upload-pack") :
        h \in URLHosts,
        rest \in Seqs(URLWords, 1, MaxURLSegs) \union
                 {<<"octocat", "Hello-World.git", "info", "refs">>,
                  <<"octocat", "Hello-World.git", "git-upload-pack">>,
                  <<"octocat", "Hello-World", "raw", "main", "README">>,
                  <<"octocat", "Hello-World", "archive", "main.zip">>,
                  <<"octocat", "Hello-World", "releases", "download", "v1", "a.bin">>,
                  <<"octocat", "abc123", "raw", "f.txt">>,
                  <<"repos", "octocat", "Hello-World">>}}

NextURL ==
    \/ \E r \in URLRequests : Arrive(r)
    \/ FullURLRoute
    \/ Done

SpecURL == InitContent /\ [][NextURL]_vars

SixHandlers == {"releases", "raw", "archive", "git", "gist", "api"}

\* C39: a request that went through URLHandler.Handle has had one of the
\* six content handlers invoked for it, or has been answered with a 400 JSON
\* error
C39_HandlerOr400 ==
    (req.state = "done" /\ req.in.route = "url" /\ isGitHubURL(GroupPath(req.in.path))) =>
        \/ resp.handler \in SixHandlers
        \/ resp.status = 400 /\ resp.json

(***************************************************************************)
(* Specification: every route, with path segments, hosts, schemes, queries *)
(* and headers that name other hosts                                       *)
(***************************************************************************)
OtherHost == "evil.example"

OutboundRequests ==
    FullURLRequests \cup
    {Request("raw", "GET", <<"", OtherHost, "Hello-World", "raw", "main", "README">>, ""),
     Request("raw", "GET", <<"", "octocat", "Hello-World", "raw", "https:", "", OtherHost>>, ""),
     Request("gist", "GET", <<"", "gist", OtherHost, "abc123", "raw", "f.txt">>, ""),
     Request("archive", "GET", <<"", OtherHost, "Hello-World", "archive", "main.zip">>, ""),
     Request("api", "GET", <<"", "api", "", OtherHost>>, OtherHost),
     [Request("api", "POST", <<"", "api", "repos", "octocat", "Hello-World">>, "")
         EXCEPT !.headers = [NoIPHeaders EXCEPT !.xRealIP = <<"ip2">>]],
     Request("inforefs", "GET", <<"", OtherHost, "Hello-World.git", "info", "refs">>,
             "git-upload-pack"),
     Request("uploadpack", "POST", <<"", OtherHost, "Hello-World.git", "git-upload-pack">>, ""),
     Request("url", "GET",
             FullURL("https:", "raw.githubusercontent.com",
                     <<OtherHost, "Hello-World", "main", "README">>), ""),
     Request("url", "GET",
             FullURL("http:", "api.github.com", <<"https:", "", OtherHost>>), OtherHost),
     Request("url", "GET",
             FullURL("https:", "gist.githubusercontent.com",
                     <<OtherHost, "abc123", "raw", "f.txt">>), "")}

NextOutbound ==
    \/ \E r \in OutboundRequests : Arrive(r)
    \/ RawRoute
    \/ GistRoute
    \/ ArchiveRoute
    \/ APIRoute
    \/ InfoRefsRoute
    \/ UploadPackRoute
    \/ FullURLRoute
    \/ Done

SpecOutbound == InitContent /\ [][NextOutbound]_vars

UpstreamHosts == {"github.com", "raw.githubusercontent.com", "gist.githubusercontent.com",
                  "api.github.com"}

\* C40: every URL fetched on behalf of the request has scheme https and one
\* of the four upstream hosts
C40_OutboundHostsFixed ==
    \A i \in DOMAIN resp.fetched :
        /\ resp.fetched[i].scheme = "https"
        /\ resp.fetched[i].host \in UpstreamHosts

\* a request whose segments name another host has been fetched from upstream
C40_Witness ==
    /\ req.state = "done"
    /\ \E j \in DOMAIN req.in.path : req.in.path[j] = OtherHost
    /\ resp.fetched # <<>>
    /\ \E i \in DOMAIN resp.fetched : OtherHost \in {resp.fetched[i].path[j] : j \in DOMAIN resp.fetched[i].path}

====
